---- MODULE Spec2Model ----
(***************************************************************************)
(* A model of the influxpool Hyperdrive AMM (src/src/*.rs): the curve      *)
(* mathematics (curves.rs), the checkpoint ledger (events.rs), the         *)
(* position lifecycle (dex.rs), the liquidity functions (liquidity.rs) and *)
(* the HyperdrivePool blueprint that owns the pool state (influxpool.rs).  *)
(*                                                                         *)
(* Decimal is a signed fixed-point number.  The model keeps the fixed      *)
(* point but with two fractional digits instead of eighteen: a Decimal d   *)
(* is the integer d * ONE, products and quotients truncate toward zero as  *)
(* Decimal's do.  Epoch numbers and durations (u64) are plain integers.    *)
(***************************************************************************)
EXTENDS Integers, FiniteSets, Sequences, TLC

\* ------------------------------------------------------------------------
\* Bounds of the model
\* ------------------------------------------------------------------------
\* Number of calls in one behaviour.
MaxOps == 4
\* Number of further calls of the liquidity functions of liquidity.rs that
\* may follow the calls of a behaviour.
MaxLibOps == 2
\* Number of clock advances in one behaviour.
MaxTicks == 2
\* Largest magnitude of a Decimal the model follows (in units of 1/ONE).
MaxVal == 20000

\* ------------------------------------------------------------------------
\* constants.rs
\* ------------------------------------------------------------------------
ZERO == 0
ONE == 100
MAX_FEE_PERCENTAGE == 100
DEFAULT_CHECKPOINT_DURATION == 604800
MIN_POSITION_DURATION == 604800
MAX_POSITION_DURATION == 315360000
MIN_LIQUIDITY == 100

\* ------------------------------------------------------------------------
\* Decimal arithmetic
\* ------------------------------------------------------------------------
Abs(x) == IF x < 0 THEN -x ELSE x

Max(a, b) == IF a >= b THEN a ELSE b

Min(a, b) == IF a <= b THEN a ELSE b

\* Integer division truncating toward zero (b # 0).
TDiv(a, b) ==
    IF (a >= 0) = (b > 0) THEN Abs(a) \div Abs(b) ELSE -(Abs(a) \div Abs(b))

\* Decimal * Decimal
DMul(a, b) == TDiv(a * b, ONE)

\* Decimal / Decimal (b # 0)
DDiv(a, b) == TDiv(a * ONE, b)

\* Decimal::from(n) / Decimal::from(d) for u64 n, d (d # 0): the same
\* quotient as DDiv(n * ONE, d * ONE).
DecRatio(n, d) == (n * ONE) \div d

\* u64::saturating_sub
saturating_sub(a, b) == IF a >= b THEN a - b ELSE 0

InRange(x) == -MaxVal <= x /\ x <= MaxVal

\* ------------------------------------------------------------------------
\* curves.rs
\* ------------------------------------------------------------------------
\* A curve that always trades one share for one bond.
trading_invariant_delta_z_linear(delta_y, z, y) == delta_y

trading_invariant_delta_z(delta_y, z, y) ==
    IF z <= ZERO \/ y <= ZERO THEN delta_y
    ELSE LET k == DMul(z, y)
             new_y == y - delta_y
         IN  IF new_y <= ZERO THEN ZERO
             ELSE DDiv(k, new_y) - z

maturity_pricing_delta_z(delta_y, share_price) ==
    IF share_price <= ZERO THEN ZERO ELSE DDiv(delta_y, share_price)

\* A position impact that prices the whole position on the curve whatever
\* time remains.
position_impact_delta_z_curve_only(delta_y, z, y, time_remaining, share_price) ==
    trading_invariant_delta_z(delta_y, z, y)

position_impact_delta_z(delta_y, z, y, time_remaining, share_price) ==
    LET new_bonds == DMul(delta_y, time_remaining)
        matured_bonds == DMul(delta_y, ONE - time_remaining)
        impact_new == IF new_bonds > ZERO
                      THEN trading_invariant_delta_z(new_bonds, z, y)
                      ELSE ZERO
        impact_matured == IF matured_bonds > ZERO
                          THEN maturity_pricing_delta_z(matured_bonds, share_price)
                          ELSE ZERO
    IN  impact_new + impact_matured

\* Returns <<new_bond_fee_amount, matured_bond_fee_amount>>.
calculate_position_fees(delta_y, time_remaining, spot_rate, new_bond_fee, matured_bond_fee) ==
    << DMul(DMul(DMul(new_bond_fee, ONE - spot_rate), delta_y), time_remaining),
       DMul(DMul(matured_bond_fee, delta_y), ONE - time_remaining) >>

calculate_lp_present_value(share_reserves_, bond_reserves_, share_price_, active_lp_shares) ==
    IF active_lp_shares <= ZERO THEN ONE
    ELSE LET share_value == DMul(share_reserves_, share_price_)
             bond_value == bond_reserves_
             total_value == share_value + bond_value
         IN  DDiv(total_value, active_lp_shares)

calculate_long_face_value(share_amount, effective_share_reserves, bond_reserves_) ==
    IF effective_share_reserves <= ZERO \/ bond_reserves_ <= ZERO THEN share_amount
    ELSE LET k == DMul(effective_share_reserves, bond_reserves_)
             new_z == effective_share_reserves + share_amount
         IN  bond_reserves_ - DDiv(k, new_z)

calculate_short_deposit(face_value, effective_share_reserves, bond_reserves_, share_price_, time_remaining) ==
    LET delta_z == position_impact_delta_z(face_value, effective_share_reserves,
                                           bond_reserves_, time_remaining, share_price_)
        collateral_required == DMul(face_value, share_price_)
        proceeds_received == DMul(delta_z, share_price_)
    IN  collateral_required - proceeds_received

\* ------------------------------------------------------------------------
\* helpers.rs
\* ------------------------------------------------------------------------
calculate_effective_share_reserves(share_reserves_, zeta_adjustment_) ==
    share_reserves_ - zeta_adjustment_

calculate_spot_rate(effective_share_reserves, bond_reserves_, share_price_) ==
    IF effective_share_reserves <= ZERO \/ bond_reserves_ <= ZERO THEN ZERO
    ELSE LET numerator == DMul(effective_share_reserves, share_price_)
             denominator == numerator + bond_reserves_
         IN  IF denominator <= ZERO THEN ZERO
             ELSE DDiv(numerator, denominator) - ONE

validate_fee(fee) == fee >= ZERO /\ fee <= MAX_FEE_PERCENTAGE

\* A validation of the durations without the multiple rule.
validate_durations_no_multiple(checkpoint_duration_, position_duration_) ==
    /\ checkpoint_duration_ > 0
    /\ position_duration_ > 0
    /\ position_duration_ >= MIN_POSITION_DURATION
    /\ position_duration_ <= MAX_POSITION_DURATION

validate_durations(checkpoint_duration_, position_duration_) ==
    /\ checkpoint_duration_ > 0
    /\ position_duration_ > 0
    /\ position_duration_ >= MIN_POSITION_DURATION
    /\ position_duration_ <= MAX_POSITION_DURATION
    /\ position_duration_ % checkpoint_duration_ = 0

validate_liquidity_amount(amount, min_amount) == amount >= min_amount

\* calculate_time_remaining without its early returns and saturating subtractions.
calculate_time_remaining_unsaturated(current_time, open_time, maturity_time) ==
    IF open_time >= maturity_time THEN ZERO
    ELSE DecRatio((maturity_time - open_time) - (current_time - open_time),
                  maturity_time - open_time)

calculate_time_remaining(current_time, open_time, maturity_time) ==
    IF current_time >= maturity_time THEN ZERO
    ELSE IF open_time >= maturity_time THEN ZERO
    ELSE LET time_passed == saturating_sub(current_time, open_time)
             total_duration == saturating_sub(maturity_time, open_time)
         IN  IF total_duration = 0 THEN ZERO
             ELSE DecRatio(saturating_sub(total_duration, time_passed), total_duration)

calculate_current_checkpoint(current_time, checkpoint_duration_) ==
    current_time - (current_time % checkpoint_duration_)

\* A pointer that is also moved to the bucket it already names.
should_update_checkpoint_again(current_checkpoint_, calculated_checkpoint) ==
    calculated_checkpoint >= current_checkpoint_

\* A pointer that never advances.
should_update_checkpoint_never(current_checkpoint_, calculated_checkpoint) == FALSE

should_update_checkpoint(current_checkpoint_, calculated_checkpoint) ==
    calculated_checkpoint > current_checkpoint_

\* ------------------------------------------------------------------------
\* events.rs: the checkpoint ledger.  A ledger is a function from checkpoint
\* ids to Checkpoint records.  avg_long_maturity and avg_short_maturity are
\* statistics that no operation reads; the model leaves them out.
\* ------------------------------------------------------------------------
Checkpoint(start_time, share_price_) ==
    [ start_time |-> start_time,
      share_price |-> share_price_,
      long_positions |-> ZERO,
      short_positions |-> ZERO,
      is_minted |-> TRUE ]

\* HashMap::insert
insert(map, key, value) ==
    [ k \in (DOMAIN map) \cup {key} |-> IF k = key THEN value ELSE map[k] ]

\* A burn that leaves the record of the non-fungible in place.
remove_nothing(map, key) == map

\* HashMap::remove / burning a non-fungible
remove(map, key) == [ k \in (DOMAIN map) \ {key} |-> map[k] ]

\* An update that returns the id of the new bucket without minting its
\* checkpoint.
update_checkpoint_if_needed_no_insert(checkpoints_, current_checkpoint_, checkpoint_duration_, share_price_, current_time) ==
    LET calculated_checkpoint == calculate_current_checkpoint(current_time, checkpoint_duration_)
    IN  IF should_update_checkpoint(current_checkpoint_, calculated_checkpoint)
        THEN [ checkpoints |-> checkpoints_,
               current_checkpoint |-> calculated_checkpoint ]
        ELSE [ checkpoints |-> checkpoints_,
               current_checkpoint |-> current_checkpoint_ ]

\* Returns [checkpoints, current_checkpoint]: the ledger after the call and
\* the id the caller stores.
update_checkpoint_if_needed(checkpoints_, current_checkpoint_, checkpoint_duration_, share_price_, current_time) ==
    LET calculated_checkpoint == calculate_current_checkpoint(current_time, checkpoint_duration_)
    IN  IF should_update_checkpoint(current_checkpoint_, calculated_checkpoint)
        THEN [ checkpoints |-> insert(checkpoints_, calculated_checkpoint,
                                      Checkpoint(calculated_checkpoint, share_price_)),
               current_checkpoint |-> calculated_checkpoint ]
        ELSE [ checkpoints |-> checkpoints_,
               current_checkpoint |-> current_checkpoint_ ]

\* An open that leaves the aggregate as it was.
update_checkpoint_long_opened_skipped(checkpoints_, checkpoint_id, face_value) == checkpoints_

update_checkpoint_long_opened(checkpoints_, checkpoint_id, face_value) ==
    IF checkpoint_id \in DOMAIN checkpoints_
    THEN [ checkpoints_ EXCEPT ![checkpoint_id].long_positions = @ + face_value ]
    ELSE checkpoints_

update_checkpoint_long_closed(checkpoints_, checkpoint_id, face_value) ==
    IF checkpoint_id \in DOMAIN checkpoints_
    THEN [ checkpoints_ EXCEPT ![checkpoint_id].long_positions = @ - face_value ]
    ELSE checkpoints_

update_checkpoint_short_opened(checkpoints_, checkpoint_id, face_value) ==
    IF checkpoint_id \in DOMAIN checkpoints_
    THEN [ checkpoints_ EXCEPT ![checkpoint_id].short_positions = @ + face_value ]
    ELSE checkpoints_

update_checkpoint_short_closed(checkpoints_, checkpoint_id, face_value) ==
    IF checkpoint_id \in DOMAIN checkpoints_
    THEN [ checkpoints_ EXCEPT ![checkpoint_id].short_positions = @ - face_value ]
    ELSE checkpoints_

\* A requirement that counts a surplus of shorts like a surplus of longs.
checkpoint_requirement_abs(checkpoint) ==
    Abs(checkpoint.long_positions - checkpoint.short_positions)

\* (checkpoint.long_positions - checkpoint.short_positions).max(ZERO)
checkpoint_requirement(checkpoint) ==
    Max(checkpoint.long_positions - checkpoint.short_positions, ZERO)

\* The body of `for i in 0..checkpoints_per_term`, from iteration i on.
RECURSIVE solvency_loop(_, _, _, _, _)
solvency_loop(checkpoints_, current_checkpoint_, checkpoint_duration_, i, checkpoints_per_term) ==
    IF i >= checkpoints_per_term THEN ZERO
    ELSE LET checkpoint_id == saturating_sub(current_checkpoint_, i * checkpoint_duration_)
         IN  (IF checkpoint_id \in DOMAIN checkpoints_
              THEN checkpoint_requirement(checkpoints_[checkpoint_id])
              ELSE ZERO)
             + solvency_loop(checkpoints_, current_checkpoint_, checkpoint_duration_,
                             i + 1, checkpoints_per_term)

\* A solvency requirement that scans the current checkpoint only.
calculate_solvency_requirement_current_only(checkpoints_, current_checkpoint_, checkpoint_duration_, position_duration_) ==
    solvency_loop(checkpoints_, current_checkpoint_, checkpoint_duration_, 0, 1)

calculate_solvency_requirement(checkpoints_, current_checkpoint_, checkpoint_duration_, position_duration_) ==
    solvency_loop(checkpoints_, current_checkpoint_, checkpoint_duration_, 0,
                  position_duration_ \div checkpoint_duration_)

\* A first checkpoint that is seeded under id 0 whatever the clock reads.
initialize_first_checkpoint_at_zero(checkpoints_, checkpoint_duration_, initial_share_price, current_time) ==
    [ checkpoints |-> insert(checkpoints_, 0, Checkpoint(0, initial_share_price)),
      current_checkpoint |-> 0 ]

\* Returns [checkpoints, current_checkpoint].
initialize_first_checkpoint(checkpoints_, checkpoint_duration_, initial_share_price, current_time) ==
    LET current_checkpoint_ == calculate_current_checkpoint(current_time, checkpoint_duration_)
    IN  [ checkpoints |-> insert(checkpoints_, current_checkpoint_,
                                 Checkpoint(current_checkpoint_, initial_share_price)),
          current_checkpoint |-> current_checkpoint_ ]

\* ------------------------------------------------------------------------
\* influxpool.rs: the state of the HyperdrivePool component, the ledgers of
\* the resources it mints, and the clock (Runtime::current_epoch).
\* ------------------------------------------------------------------------
VARIABLES
    is_initialized, pool_counter,
    share_reserves, bond_reserves, zeta_adjustment, share_price,
    checkpoints, checkpoint_duration, position_duration, current_checkpoint,
    new_bond_fee, matured_bond_fee, governance_fee, zombie_governance_fee,
    min_share_reserves,
    yield_source_vault,      \* amount held by the yield source vault
    governance_vault,        \* amount held by the governance vault
    active_lp_vault,         \* amount of LP tokens held by the component's vault
    ready_withdrawal_vault,  \* amount of ready withdrawal shares held
    lp_supply,               \* LP tokens minted and not burned
    withdrawal_supply,       \* withdrawal shares minted and not burned
    long_position_nfts,      \* live LongPosition records by non-fungible id
    short_position_nfts,     \* live ShortPosition records by non-fungible id
    next_id,                 \* the next non-fungible id to issue
    burned_position_nfts,    \* the position non-fungibles burned, as <<kind, id>>
    now,                     \* Runtime::current_epoch().number()
    last,                    \* the last call: its arguments, outcome and results
    ops, ticks,              \* counters that bound a behaviour
    eval                     \* the last direct evaluation of a function of helpers.rs or curves.rs

config == << checkpoint_duration, position_duration, new_bond_fee, matured_bond_fee,
             governance_fee, zombie_governance_fee, min_share_reserves >>
reserves == << share_reserves, bond_reserves, zeta_adjustment >>
ledger == << checkpoints, current_checkpoint >>
vaults == << yield_source_vault, governance_vault, active_lp_vault, ready_withdrawal_vault >>
supplies == << lp_supply, withdrawal_supply >>
positions == << long_position_nfts, short_position_nfts, next_id, burned_position_nfts >>
pool == << is_initialized, pool_counter, share_price, config, reserves, ledger,
           vaults, supplies, positions >>
vars == << pool, now, last, ops, ticks, eval >>

\* ------------------------------------------------------------------------
\* Inputs the model draws from
\* ------------------------------------------------------------------------
TimeStep == DEFAULT_CHECKPOINT_DURATION \div 2

\* The configurations create_pool is called with.
\* A configuration without fees and without a floor, for one week terms.
NoFeeConfig ==
    [ checkpoint_duration |-> DEFAULT_CHECKPOINT_DURATION,
      position_duration |-> DEFAULT_CHECKPOINT_DURATION,
      new_bond_fee |-> 0, matured_bond_fee |-> 0,
      governance_fee |-> 0, zombie_governance_fee |-> 0,
      min_share_reserves |-> 0, initial_liquidity |-> 2000 ]

\* Fees outside [0, 1].
\* A pool that charges the largest fees create_pool accepts.
MaxFeeConfig ==
    [ NoFeeConfig EXCEPT !.checkpoint_duration = DEFAULT_CHECKPOINT_DURATION \div 2,
                         !.new_bond_fee = MAX_FEE_PERCENTAGE,
                         !.matured_bond_fee = MAX_FEE_PERCENTAGE,
                         !.governance_fee = ONE \div 10 ]

Fees == { -10, 150 }

\* Pairs << checkpoint_duration, position_duration >> that create_pool is
\* tried with besides the ones of the pools below.
Durations ==
    { << 0, DEFAULT_CHECKPOINT_DURATION >>,
      << DEFAULT_CHECKPOINT_DURATION, 0 >>,
      << DEFAULT_CHECKPOINT_DURATION \div 2, DEFAULT_CHECKPOINT_DURATION \div 2 >>,
      << DEFAULT_CHECKPOINT_DURATION, DEFAULT_CHECKPOINT_DURATION + 1 >>,
      << 2 * DEFAULT_CHECKPOINT_DURATION, DEFAULT_CHECKPOINT_DURATION >>,
      << DEFAULT_CHECKPOINT_DURATION, 31536000 >>,
      << DEFAULT_CHECKPOINT_DURATION, 31536001 >>,
      << DEFAULT_CHECKPOINT_DURATION, 522 * DEFAULT_CHECKPOINT_DURATION >> }

PoolConfigs ==
    { [ checkpoint_duration |-> DEFAULT_CHECKPOINT_DURATION \div 2,
        position_duration |-> DEFAULT_CHECKPOINT_DURATION,
        new_bond_fee |-> 0, matured_bond_fee |-> 0,
        governance_fee |-> 0, zombie_governance_fee |-> 0,
        min_share_reserves |-> 0, initial_liquidity |-> 2000 ],
      [ checkpoint_duration |-> DEFAULT_CHECKPOINT_DURATION,
        position_duration |-> DEFAULT_CHECKPOINT_DURATION,
        new_bond_fee |-> 10, matured_bond_fee |-> 5,
        governance_fee |-> 10, zombie_governance_fee |-> 10,
        min_share_reserves |-> 1000, initial_liquidity |-> 2000 ],
      [ checkpoint_duration |-> DEFAULT_CHECKPOINT_DURATION \div 2,
        position_duration |-> DEFAULT_CHECKPOINT_DURATION,
        new_bond_fee |-> 100, matured_bond_fee |-> 100,
        governance_fee |-> 0, zombie_governance_fee |-> 0,
        min_share_reserves |-> 2000, initial_liquidity |-> 2000 ],
      [ checkpoint_duration |-> DEFAULT_CHECKPOINT_DURATION,
        position_duration |-> DEFAULT_CHECKPOINT_DURATION,
        new_bond_fee |-> 0, matured_bond_fee |-> 0,
        governance_fee |-> 0, zombie_governance_fee |-> 0,
        min_share_reserves |-> 3000, initial_liquidity |-> 2000 ] }
    \cup { MaxFeeConfig }
    \cup { [ NoFeeConfig EXCEPT !.checkpoint_duration = d[1], !.position_duration = d[2] ] :
             d \in Durations }
    \cup { [ NoFeeConfig EXCEPT !.new_bond_fee = f ] : f \in Fees }
    \cup { [ NoFeeConfig EXCEPT !.zombie_governance_fee = f ] : f \in Fees }

Capitals == { 0, 1000 }

ShortOrders == { [ capital |-> 500, face_value |-> 500 ],
                 [ capital |-> 0, face_value |-> 1000 ],
                 [ capital |-> 500, face_value |-> 0 ] }

Deposits == { 50, 100, 500 }

LpAmounts == { 0, 500, 2000 }

SharePrices == { 0, 50, 200 }

RedeemAmounts == { 0, 100, 400 }

\* ------------------------------------------------------------------------
\* The record of a call
\* ------------------------------------------------------------------------
\* The pool as a call finds it.
Pre ==
    [ is_initialized |-> is_initialized,
      share_reserves |-> share_reserves,
      bond_reserves |-> bond_reserves,
      zeta_adjustment |-> zeta_adjustment,
      share_price |-> share_price,
      lp_supply |-> lp_supply,
      withdrawal_supply |-> withdrawal_supply,
      ready_withdrawal_vault |-> ready_withdrawal_vault,
      solvency_requirement |->
          IF is_initialized
          THEN calculate_solvency_requirement(checkpoints, current_checkpoint,
                                              checkpoint_duration, position_duration)
          ELSE ZERO ]

\* No create_pool arguments.
NoConfig ==
    [ checkpoint_duration |-> 0, position_duration |-> 0,
      new_bond_fee |-> 0, matured_bond_fee |-> 0,
      governance_fee |-> 0, zombie_governance_fee |-> 0,
      min_share_reserves |-> 0, initial_liquidity |-> 0 ]

NoCall ==
    [ op |-> "none", ok |-> TRUE, err |-> "", time |-> 0,
      amount |-> 0, face_value |-> 0, id |-> 0,
      payout |-> 0, minted |-> 0, wshares |-> 0, change |-> 0,
      total_fee |-> 0, governance_fee_amount |-> 0, lp_fee |-> 0,
      delta_z |-> 0, time_remaining |-> 0,
      cfg |-> NoConfig,
      pre |-> [ is_initialized |-> FALSE,
                share_reserves |-> 0, bond_reserves |-> 0, zeta_adjustment |-> 0,
                share_price |-> ONE, lp_supply |-> 0, withdrawal_supply |-> 0,
                ready_withdrawal_vault |-> 0, solvency_requirement |-> 0 ] ]

Call(op, amount, face_value, id) ==
    [ NoCall EXCEPT !.op = op, !.time = now, !.amount = amount,
                    !.face_value = face_value, !.id = id, !.pre = Pre ]

\* A failure that returns an error without aborting the transaction: the
\* checkpoint update made before the validation stays.
FailKeepingCheckpoint(op, err, amount, face_value, id) ==
    /\ last' = [ Call(op, amount, face_value, id) EXCEPT !.ok = FALSE, !.err = err ]
    /\ ops' = ops + 1
    /\ IF is_initialized
         THEN LET upd == update_checkpoint_if_needed(checkpoints, current_checkpoint,
                                                     checkpoint_duration, share_price, now)
              IN  /\ checkpoints' = upd.checkpoints
                  /\ current_checkpoint' = upd.current_checkpoint
         ELSE UNCHANGED ledger
    /\ UNCHANGED << is_initialized, pool_counter, share_price, config, reserves,
                    vaults, supplies, positions, now, ticks, eval >>

\* No function evaluated directly yet; a pure function is evaluated once per
\* behaviour, its result does not depend on earlier evaluations.
NoEval == [ fn |-> "none" ]

\* A call that panics: the transaction aborts and commits nothing.
Fail(op, err, amount, face_value, id) ==
    /\ last' = [ Call(op, amount, face_value, id) EXCEPT !.ok = FALSE, !.err = err ]
    /\ ops' = ops + 1
    /\ UNCHANGED << pool, now, ticks, eval >>

\* A create_pool that panics on its arguments.
CreateFail(err, cfg) ==
    /\ last' = [ Call("create_pool", cfg.initial_liquidity, 0, 0)
                   EXCEPT !.ok = FALSE, !.err = err, !.cfg = cfg ]
    /\ ops' = ops + 1
    /\ UNCHANGED << pool, now, ticks, eval >>

\* A failed call changes nothing but the record of the last call, so every
\* pool state that a behaviour with failed calls in it reaches is reached by
\* the behaviour without them: the model follows a behaviour up to its first
\* failed call and no further.
CanCall == ops < MaxOps /\ last.ok

\* The same for a direct call of a function of liquidity.rs.
CanCallLib == ops < MaxOps + MaxLibOps /\ last.ok

\* Vault::take / Bucket::take succeed for 0 <= amount <= balance.
CanTake(balance, amount) == ZERO <= amount /\ amount <= balance

Init ==
    /\ is_initialized = FALSE
    /\ pool_counter = 0
    /\ share_reserves = ZERO
    /\ bond_reserves = ZERO
    /\ zeta_adjustment = ZERO
    /\ share_price = ONE
    /\ checkpoints = << >>
    /\ checkpoint_duration = 0
    /\ position_duration = 0
    /\ current_checkpoint = 0
    /\ new_bond_fee = ZERO
    /\ matured_bond_fee = ZERO
    /\ governance_fee = ZERO
    /\ zombie_governance_fee = ZERO
    /\ min_share_reserves = ZERO
    /\ yield_source_vault = ZERO
    /\ governance_vault = ZERO
    /\ active_lp_vault = ZERO
    /\ ready_withdrawal_vault = ZERO
    /\ lp_supply = ZERO
    /\ withdrawal_supply = ZERO
    /\ long_position_nfts = << >>
    /\ short_position_nfts = << >>
    /\ next_id = 1
    /\ burned_position_nfts = {}
    /\ now = 0
    /\ last = NoCall
    /\ ops = 0
    /\ ticks = 0
    /\ eval = NoEval

\* The epoch advances between transactions (while a transaction is still to come).
Tick ==
    /\ ticks < MaxTicks
    /\ CanCall
    /\ ticks' = ticks + 1
    /\ now' = now + TimeStep
    /\ UNCHANGED << pool, last, ops, eval >>

\* A create_pool that does not look at is_initialized.
already_initialized_ignored == FALSE

\* assert!(!self.is_initialized, "Pool already initialized")
already_initialized == is_initialized

\* HyperdrivePool::create_pool.  The assertion on is_initialized comes before
\* any argument is read: the record of a call it stops keeps the amount only.
CreatePool(cfg) ==
    /\ CanCall
    /\ IF already_initialized
         THEN Fail("create_pool", "Pool already initialized", cfg.initial_liquidity, 0, 0)
       ELSE IF ~validate_durations(cfg.checkpoint_duration, cfg.position_duration)
         THEN CreateFail("duration", cfg)
       ELSE IF ~(/\ validate_fee(cfg.new_bond_fee)
                 /\ validate_fee(cfg.matured_bond_fee)
                 /\ validate_fee(cfg.governance_fee)
                 /\ validate_fee(cfg.zombie_governance_fee))
         THEN CreateFail("fee", cfg)
       ELSE IF ~validate_liquidity_amount(cfg.initial_liquidity, cfg.min_share_reserves)
         THEN CreateFail("Liquidity amount", cfg)
       ELSE
         LET first == initialize_first_checkpoint(checkpoints, cfg.checkpoint_duration,
                                                  ONE, now)
             initial_amount == cfg.initial_liquidity
             initial_share_reserves == initial_amount - cfg.min_share_reserves
         IN  /\ pool_counter' = pool_counter + 1
             /\ checkpoint_duration' = cfg.checkpoint_duration
             /\ position_duration' = cfg.position_duration
             /\ new_bond_fee' = cfg.new_bond_fee
             /\ matured_bond_fee' = cfg.matured_bond_fee
             /\ governance_fee' = cfg.governance_fee
             /\ zombie_governance_fee' = cfg.zombie_governance_fee
             /\ min_share_reserves' = cfg.min_share_reserves
             /\ share_reserves' = initial_share_reserves
             /\ bond_reserves' = ZERO
             /\ zeta_adjustment' = ZERO
             /\ share_price' = ONE
             /\ checkpoints' = first.checkpoints
             /\ current_checkpoint' = first.current_checkpoint
             /\ yield_source_vault' = initial_amount
             /\ governance_vault' = ZERO
             /\ active_lp_vault' = ZERO
             /\ ready_withdrawal_vault' = ZERO
             /\ is_initialized' = TRUE
             /\ lp_supply' = lp_supply + initial_share_reserves
             /\ last' = [ Call("create_pool", initial_amount, 0, 0)
                            EXCEPT !.minted = initial_share_reserves, !.cfg = cfg ]
             /\ ops' = ops + 1
             /\ UNCHANGED << withdrawal_supply, positions, now, ticks, eval >>

OpenLong(base_amount) ==
    /\ CanCall
    /\ IF ~is_initialized
         THEN Fail("open_long", "Pool not initialized", base_amount, 0, 0)
       ELSE
         LET upd == update_checkpoint_if_needed(checkpoints, current_checkpoint,
                                                checkpoint_duration, share_price, now)
             current_time == now
             maturity_time == upd.current_checkpoint + position_duration
             time_remaining == ONE
             share_amount == DDiv(base_amount, share_price)
             effective_shares == calculate_effective_share_reserves(share_reserves, zeta_adjustment)
             face_value == calculate_long_face_value(share_amount, effective_shares, bond_reserves)
             spot_rate == calculate_spot_rate(effective_shares, bond_reserves, share_price)
             total_fee == calculate_position_fees(face_value, time_remaining, spot_rate,
                                                  new_bond_fee, ZERO)[1]
             governance_fee_amount == DMul(total_fee, governance_fee)
             lp_fee == total_fee - governance_fee_amount
             adjusted_face_value == face_value - lp_fee
             governance_shares == IF governance_fee_amount > ZERO
                                  THEN DDiv(governance_fee_amount, share_price)
                                  ELSE ZERO
             position_data == [ face_value |-> adjusted_face_value,
                                checkpoint |-> upd.current_checkpoint,
                                open_time |-> current_time,
                                maturity_time |-> maturity_time ]
         IN  /\ InRange(share_reserves + share_amount)
             /\ InRange(bond_reserves - adjusted_face_value)
             /\ IF ~CanTake(yield_source_vault, governance_shares)
                  THEN Fail("open_long", "vault", base_amount, 0, 0)
                ELSE
                  /\ share_reserves' = share_reserves + share_amount
                  /\ bond_reserves' = bond_reserves - adjusted_face_value
                  /\ checkpoints' = update_checkpoint_long_opened(
                                        upd.checkpoints, upd.current_checkpoint,
                                        adjusted_face_value)
                  /\ current_checkpoint' = upd.current_checkpoint
                  /\ long_position_nfts' = insert(long_position_nfts, next_id, position_data)
                  /\ next_id' = next_id + 1
                  /\ yield_source_vault' = yield_source_vault - governance_shares + base_amount
                  /\ governance_vault' = governance_vault + governance_shares
                  /\ last' = [ Call("open_long", base_amount, adjusted_face_value, next_id)
                                 EXCEPT !.total_fee = total_fee,
                                        !.governance_fee_amount = governance_fee_amount,
                                        !.lp_fee = lp_fee,
                                        !.delta_z = share_amount,
                                        !.time_remaining = time_remaining ]
                  /\ ops' = ops + 1
                  /\ UNCHANGED << is_initialized, pool_counter, share_price, config,
                                  zeta_adjustment, active_lp_vault, ready_withdrawal_vault,
                                  supplies, short_position_nfts, burned_position_nfts,
                                  now, ticks, eval >>

\* The non-fungible ids a caller can present.
IssuedIds == 1 .. (next_id - 1)

CloseLong(id) ==
    /\ CanCall
    /\ IF ~is_initialized
         THEN Fail("close_long", "Pool not initialized", 0, 0, id)
       ELSE IF id \notin DOMAIN long_position_nfts
         THEN Fail("close_long", "Invalid long position", 0, 0, id)
       ELSE
         LET upd == update_checkpoint_if_needed(checkpoints, current_checkpoint,
                                                checkpoint_duration, share_price, now)
             position_data == long_position_nfts[id]
             current_time == now
             time_remaining == calculate_time_remaining(current_time, position_data.open_time,
                                                        position_data.maturity_time)
             face_value == position_data.face_value
             effective_shares == calculate_effective_share_reserves(share_reserves, zeta_adjustment)
             delta_z == position_impact_delta_z(face_value, effective_shares, bond_reserves,
                                                time_remaining, share_price)
             spot_rate == calculate_spot_rate(effective_shares, bond_reserves, share_price)
             fees == calculate_position_fees(face_value, time_remaining, spot_rate,
                                             new_bond_fee, matured_bond_fee)
             new_bond_fee_amount == fees[1]
             matured_bond_fee_amount == fees[2]
             total_fee == new_bond_fee_amount + matured_bond_fee_amount
             governance_fee_amount == DMul(total_fee, governance_fee)
             lp_fee == total_fee - governance_fee_amount
             base_proceeds == DMul(delta_z, share_price) - lp_fee
             matured_impact == maturity_pricing_delta_z(
                                   DMul(face_value, ONE - time_remaining), share_price)
             new_zeta == zeta_adjustment
                         - (matured_impact - DMul(matured_bond_fee_amount, ONE - governance_fee))
             governance_shares == IF governance_fee_amount > ZERO
                                  THEN DDiv(governance_fee_amount, share_price)
                                  ELSE ZERO
         IN  /\ InRange(delta_z)
             /\ InRange(share_reserves - delta_z)
             /\ InRange(bond_reserves + DMul(face_value, time_remaining))
             /\ InRange(new_zeta)
             /\ IF ~(/\ CanTake(yield_source_vault, governance_shares)
                     /\ CanTake(yield_source_vault - governance_shares, base_proceeds))
                  THEN Fail("close_long", "vault", 0, face_value, id)
                ELSE
                  /\ share_reserves' = share_reserves - delta_z
                  /\ bond_reserves' = bond_reserves + DMul(face_value, time_remaining)
                  /\ zeta_adjustment' = new_zeta
                  /\ checkpoints' = update_checkpoint_long_closed(
                                        upd.checkpoints, position_data.checkpoint, face_value)
                  /\ current_checkpoint' = upd.current_checkpoint
                  /\ long_position_nfts' = remove(long_position_nfts, id)
                  /\ burned_position_nfts' = burned_position_nfts \cup { << "long", id >> }
                  /\ yield_source_vault' = yield_source_vault - governance_shares - base_proceeds
                  /\ governance_vault' = governance_vault + governance_shares
                  /\ last' = [ Call("close_long", 0, face_value, id)
                                 EXCEPT !.payout = base_proceeds,
                                        !.total_fee = total_fee,
                                        !.governance_fee_amount = governance_fee_amount,
                                        !.lp_fee = lp_fee,
                                        !.delta_z = delta_z,
                                        !.time_remaining = time_remaining ]
                  /\ ops' = ops + 1
                  /\ UNCHANGED << is_initialized, pool_counter, share_price, config,
                                  active_lp_vault, ready_withdrawal_vault, supplies,
                                  short_position_nfts, next_id, now, ticks, eval >>

OpenShort(base_amount, face_value) ==
    /\ CanCall
    /\ IF ~is_initialized
         THEN Fail("open_short", "Pool not initialized", base_amount, face_value, 0)
       ELSE IF ~(face_value > ZERO)
         THEN Fail("open_short", "Face value must be positive", base_amount, face_value, 0)
       ELSE
         LET upd == update_checkpoint_if_needed(checkpoints, current_checkpoint,
                                                checkpoint_duration, share_price, now)
             current_time == now
             maturity_time == upd.current_checkpoint + position_duration
             time_remaining == ONE
             effective_shares == calculate_effective_share_reserves(share_reserves, zeta_adjustment)
             deposit_required == calculate_short_deposit(face_value, effective_shares,
                                                         bond_reserves, share_price,
                                                         time_remaining)
             spot_rate == calculate_spot_rate(effective_shares, bond_reserves, share_price)
             total_fee == calculate_position_fees(face_value, time_remaining, spot_rate,
                                                  new_bond_fee, ZERO)[1]
             governance_fee_amount == DMul(total_fee, governance_fee)
             lp_fee == total_fee - governance_fee_amount
             total_deposit_required == deposit_required + lp_fee
             delta_z == position_impact_delta_z(face_value, effective_shares, bond_reserves,
                                                time_remaining, share_price)
             new_share_reserves == share_reserves - (delta_z - DDiv(lp_fee, share_price))
             position_data == [ face_value |-> face_value,
                                checkpoint |-> upd.current_checkpoint,
                                open_time |-> current_time,
                                maturity_time |-> maturity_time,
                                initial_share_price |-> share_price ]
             change == base_amount - total_deposit_required
             governance_shares == IF governance_fee_amount > ZERO
                                  THEN DDiv(governance_fee_amount, share_price)
                                  ELSE ZERO
         IN  /\ InRange(delta_z)
             /\ InRange(new_share_reserves)
             /\ InRange(bond_reserves + face_value)
             /\ IF ~(base_amount >= total_deposit_required)
                  THEN Fail("open_short", "Insufficient deposit for short position",
                            base_amount, face_value, 0)
                ELSE IF ~CanTake(base_amount, change)
                  THEN Fail("open_short", "bucket", base_amount, face_value, 0)
                ELSE IF ~CanTake(yield_source_vault, governance_shares)
                  THEN Fail("open_short", "vault", base_amount, face_value, 0)
                ELSE
                  /\ share_reserves' = new_share_reserves
                  /\ bond_reserves' = bond_reserves + face_value
                  /\ checkpoints' = update_checkpoint_short_opened(
                                        upd.checkpoints, upd.current_checkpoint, face_value)
                  /\ current_checkpoint' = upd.current_checkpoint
                  /\ short_position_nfts' = insert(short_position_nfts, next_id, position_data)
                  /\ next_id' = next_id + 1
                  /\ yield_source_vault' = yield_source_vault - governance_shares
                                           + (base_amount - change)
                  /\ governance_vault' = governance_vault + governance_shares
                  /\ last' = [ Call("open_short", base_amount, face_value, next_id)
                                 EXCEPT !.change = change,
                                        !.payout = total_deposit_required,
                                        !.total_fee = total_fee,
                                        !.governance_fee_amount = governance_fee_amount,
                                        !.lp_fee = lp_fee,
                                        !.delta_z = delta_z,
                                        !.time_remaining = time_remaining ]
                  /\ ops' = ops + 1
                  /\ UNCHANGED << is_initialized, pool_counter, share_price, config,
                                  zeta_adjustment, active_lp_vault, ready_withdrawal_vault,
                                  supplies, long_position_nfts, burned_position_nfts,
                                  now, ticks, eval >>

CloseShort(id) ==
    /\ CanCall
    /\ IF ~is_initialized
         THEN Fail("close_short", "Pool not initialized", 0, 0, id)
       ELSE IF id \notin DOMAIN short_position_nfts
         THEN Fail("close_short", "Invalid short position", 0, 0, id)
       ELSE
         LET upd == update_checkpoint_if_needed(checkpoints, current_checkpoint,
                                                checkpoint_duration, share_price, now)
             position_data == short_position_nfts[id]
             current_time == now
             time_remaining == calculate_time_remaining(current_time, position_data.open_time,
                                                        position_data.maturity_time)
             face_value == position_data.face_value
             effective_shares == calculate_effective_share_reserves(share_reserves, zeta_adjustment)
             delta_z == position_impact_delta_z(face_value, effective_shares, bond_reserves,
                                                time_remaining, share_price)
             spot_rate == calculate_spot_rate(effective_shares, bond_reserves, share_price)
             fees == calculate_position_fees(face_value, time_remaining, spot_rate,
                                             new_bond_fee, matured_bond_fee)
             new_bond_fee_amount == fees[1]
             matured_bond_fee_amount == fees[2]
             total_fee == new_bond_fee_amount + matured_bond_fee_amount
             governance_fee_amount == DMul(total_fee, governance_fee)
             lp_fee == total_fee - governance_fee_amount
             share_price_ratio == DDiv(share_price, position_data.initial_share_price)
             base_proceeds == DMul(face_value, share_price_ratio)
                              - DMul(delta_z, share_price) - lp_fee
             matured_impact == maturity_pricing_delta_z(
                                   DMul(face_value, ONE - time_remaining), share_price)
             new_zeta == zeta_adjustment
                         + (matured_impact
                            + DDiv(DMul(matured_bond_fee_amount, ONE - governance_fee),
                                   share_price))
             governance_shares == IF governance_fee_amount > ZERO
                                  THEN DDiv(governance_fee_amount, share_price)
                                  ELSE ZERO
         IN  /\ InRange(delta_z)
             /\ InRange(share_reserves + delta_z)
             /\ InRange(bond_reserves - DMul(face_value, time_remaining))
             /\ InRange(new_zeta)
             /\ IF ~(/\ CanTake(yield_source_vault, governance_shares)
                     /\ CanTake(yield_source_vault - governance_shares, base_proceeds))
                  THEN Fail("close_short", "vault", 0, face_value, id)
                ELSE
                  /\ share_reserves' = share_reserves + delta_z
                  /\ bond_reserves' = bond_reserves - DMul(face_value, time_remaining)
                  /\ zeta_adjustment' = new_zeta
                  /\ checkpoints' = update_checkpoint_short_closed(
                                        upd.checkpoints, position_data.checkpoint, face_value)
                  /\ current_checkpoint' = upd.current_checkpoint
                  /\ short_position_nfts' = remove(short_position_nfts, id)
                  /\ burned_position_nfts' = burned_position_nfts \cup { << "short", id >> }
                  /\ yield_source_vault' = yield_source_vault - governance_shares - base_proceeds
                  /\ governance_vault' = governance_vault + governance_shares
                  /\ last' = [ Call("close_short", 0, face_value, id)
                                 EXCEPT !.payout = base_proceeds,
                                        !.total_fee = total_fee,
                                        !.governance_fee_amount = governance_fee_amount,
                                        !.lp_fee = lp_fee,
                                        !.delta_z = delta_z,
                                        !.time_remaining = time_remaining ]
                  /\ ops' = ops + 1
                  /\ UNCHANGED << is_initialized, pool_counter, share_price, config,
                                  active_lp_vault, ready_withdrawal_vault, supplies,
                                  long_position_nfts, next_id, now, ticks, eval >>

\* ------------------------------------------------------------------------
\* liquidity.rs
\* ------------------------------------------------------------------------
\* add_liquidity as a function of its arguments: whether it completes, the
\* LP tokens it mints and the share reserves it leaves.
add_liquidity(base_amount, share_reserves_, bond_reserves_, share_price_, active_lp_shares) ==
    IF ~validate_liquidity_amount(base_amount, MIN_LIQUIDITY)
    THEN [ ok |-> FALSE, err |-> "Liquidity amount",
           lp_tokens_to_mint |-> ZERO, share_reserves |-> share_reserves_ ]
    ELSE LET share_amount == DDiv(base_amount, share_price_)
             lp_present_value == calculate_lp_present_value(share_reserves_, bond_reserves_,
                                                            share_price_, active_lp_shares)
         IN  IF active_lp_shares > ZERO /\ lp_present_value = ZERO
             THEN [ ok |-> FALSE, err |-> "division by zero",
                    lp_tokens_to_mint |-> ZERO, share_reserves |-> share_reserves_ ]
             ELSE LET lp_tokens_to_mint ==
                          IF active_lp_shares <= ZERO
                          THEN share_amount
                          ELSE DDiv(DMul(share_amount, share_price_), lp_present_value)
                  IN  IF lp_tokens_to_mint < ZERO
                      THEN [ ok |-> FALSE, err |-> "mint",
                             lp_tokens_to_mint |-> ZERO, share_reserves |-> share_reserves_ ]
                      ELSE [ ok |-> TRUE, err |-> "",
                             lp_tokens_to_mint |-> lp_tokens_to_mint,
                             share_reserves |-> share_reserves_ + share_amount ]

\* A remove_liquidity that forgets the solvency requirement.
remove_liquidity_available_no_solvency(share_reserves_, min_share_reserves_, solvency_requirement, share_price_) ==
    DMul(Max(share_reserves_ - min_share_reserves_, ZERO), share_price_)

\* The liquidity remove_liquidity may pay out at once (available_share_value).
remove_liquidity_available(share_reserves_, min_share_reserves_, solvency_requirement, share_price_) ==
    DMul(Max(share_reserves_ - min_share_reserves_
             - DDiv(solvency_requirement, share_price_), ZERO),
         share_price_)

\* remove_liquidity as a function of its arguments: whether it completes,
\* the base tokens it pays, the withdrawal shares it mints and the share
\* reserves it leaves.  vault is the balance of yield_source_vault.
remove_liquidity(lp_amount, share_reserves_, bond_reserves_, share_price_, active_lp_shares, min_share_reserves_, checkpoints_, current_checkpoint_, checkpoint_duration_, position_duration_, vault) ==
    LET failed(err) == [ ok |-> FALSE, err |-> err, base_tokens |-> ZERO,
                         withdrawal_shares |-> ZERO, share_reserves |-> share_reserves_ ]
    IN  IF ~(lp_amount > ZERO) THEN failed("LP amount must be positive")
        ELSE IF ~(lp_amount <= active_lp_shares) THEN failed("Insufficient LP tokens")
        ELSE
          LET lp_present_value == calculate_lp_present_value(share_reserves_, bond_reserves_,
                                                             share_price_, active_lp_shares)
              total_value_to_withdraw == DMul(lp_amount, lp_present_value)
              solvency_requirement == calculate_solvency_requirement(
                                          checkpoints_, current_checkpoint_,
                                          checkpoint_duration_, position_duration_)
              available_share_value ==
                  remove_liquidity_available(share_reserves_, min_share_reserves_,
                                             solvency_requirement, share_price_)
              immediate_withdrawal == Min(total_value_to_withdraw, available_share_value)
              withdrawal_shares_amount == total_value_to_withdraw - immediate_withdrawal
          IN  IF immediate_withdrawal > ZERO /\ ~CanTake(vault, immediate_withdrawal)
              THEN failed("vault")
              ELSE [ ok |-> TRUE, err |-> "",
                     base_tokens |-> IF immediate_withdrawal > ZERO
                                     THEN immediate_withdrawal ELSE ZERO,
                     withdrawal_shares |-> IF withdrawal_shares_amount > ZERO
                                           THEN withdrawal_shares_amount ELSE ZERO,
                     share_reserves |-> IF immediate_withdrawal > ZERO
                                        THEN share_reserves_
                                             - DDiv(immediate_withdrawal, share_price_)
                                        ELSE share_reserves_ ]

\* HyperdrivePool::add_liquidity
AddLiquidity(base_amount) ==
    /\ CanCall
    /\ IF ~is_initialized
         THEN Fail("add_liquidity", "Pool not initialized", base_amount, 0, 0)
       ELSE
         LET r == add_liquidity(base_amount, share_reserves, bond_reserves, share_price,
                                active_lp_vault)
         IN  /\ InRange(r.share_reserves)
             /\ IF ~r.ok
                  THEN Fail("add_liquidity", r.err, base_amount, 0, 0)
                ELSE
                  /\ share_reserves' = r.share_reserves
                  /\ yield_source_vault' = yield_source_vault + base_amount
                  /\ lp_supply' = lp_supply + r.lp_tokens_to_mint
                  /\ last' = [ Call("add_liquidity", base_amount, 0, 0)
                                 EXCEPT !.minted = r.lp_tokens_to_mint ]
                  /\ ops' = ops + 1
                  /\ UNCHANGED << is_initialized, pool_counter, share_price, config,
                                  bond_reserves, zeta_adjustment, ledger,
                                  governance_vault, active_lp_vault, ready_withdrawal_vault,
                                  withdrawal_supply, positions, now, ticks, eval >>

\* What a completed remove_liquidity commits.
CommitRemoveLiquidity(op, lp_amount, r) ==
    /\ share_reserves' = r.share_reserves
    /\ yield_source_vault' = yield_source_vault - r.base_tokens
    /\ lp_supply' = lp_supply - lp_amount
    /\ withdrawal_supply' = withdrawal_supply + r.withdrawal_shares
    /\ last' = [ Call(op, lp_amount, 0, 0)
                   EXCEPT !.payout = r.base_tokens,
                          !.wshares = r.withdrawal_shares ]
    /\ ops' = ops + 1
    /\ UNCHANGED << is_initialized, pool_counter, share_price, config,
                    bond_reserves, zeta_adjustment, ledger,
                    governance_vault, active_lp_vault, ready_withdrawal_vault,
                    positions, now, ticks, eval >>

\* HyperdrivePool::remove_liquidity.  The caller presents a bucket of
\* lp_amount LP tokens, which cannot exceed the tokens in existence.
RemoveLiquidity(lp_amount) ==
    /\ CanCall
    /\ lp_amount <= lp_supply
    /\ IF ~is_initialized
         THEN Fail("remove_liquidity", "Pool not initialized", lp_amount, 0, 0)
       ELSE
         LET r == remove_liquidity(lp_amount, share_reserves, bond_reserves, share_price,
                                   active_lp_vault, min_share_reserves, checkpoints,
                                   current_checkpoint, checkpoint_duration,
                                   position_duration, yield_source_vault)
         IN  IF ~r.ok
               THEN Fail("remove_liquidity", r.err, lp_amount, 0, 0)
             ELSE CommitRemoveLiquidity("remove_liquidity", lp_amount, r)

\* liquidity.rs remove_liquidity called with the LP tokens outstanding as
\* active_lp_shares.
LibRemoveLiquidity(lp_amount) ==
    /\ CanCallLib
    /\ is_initialized
    /\ lp_amount <= lp_supply
    /\ LET r == remove_liquidity(lp_amount, share_reserves, bond_reserves, share_price,
                                 lp_supply, min_share_reserves, checkpoints,
                                 current_checkpoint, checkpoint_duration,
                                 position_duration, yield_source_vault)
       IN  IF ~r.ok
             THEN Fail("lib_remove_liquidity", r.err, lp_amount, 0, 0)
           ELSE CommitRemoveLiquidity("lib_remove_liquidity", lp_amount, r)

\* An idle liquidity that forgets the floor of the share reserves.
calculate_idle_liquidity_no_floor(share_reserves_, share_price_, min_share_reserves_, checkpoints_, current_checkpoint_, checkpoint_duration_, position_duration_) ==
    LET solvency_requirement == calculate_solvency_requirement(
                                    checkpoints_, current_checkpoint_,
                                    checkpoint_duration_, position_duration_)
    IN  DMul(Max(share_reserves_ - DDiv(solvency_requirement, share_price_), ZERO),
             share_price_)

calculate_idle_liquidity(share_reserves_, share_price_, min_share_reserves_, checkpoints_, current_checkpoint_, checkpoint_duration_, position_duration_) ==
    LET solvency_requirement == calculate_solvency_requirement(
                                    checkpoints_, current_checkpoint_,
                                    checkpoint_duration_, position_duration_)
        idle_liquidity_shares ==
            Min(Max(share_reserves_ - DDiv(solvency_requirement, share_price_), ZERO),
                share_reserves_ - min_share_reserves_)
    IN  DMul(idle_liquidity_shares, share_price_)

\* liquidity.rs distribute_excess_idle_liquidity, called with the withdrawal
\* shares and the LP tokens outstanding.
LibDistributeExcessIdleLiquidity ==
    /\ CanCallLib
    /\ is_initialized
    /\ LET idle_liquidity == calculate_idle_liquidity(
                                 share_reserves, share_price, min_share_reserves,
                                 checkpoints, current_checkpoint, checkpoint_duration,
                                 position_duration)
           nothing ==
               /\ last' = Call("lib_distribute", 0, 0, 0)
               /\ ops' = ops + 1
               /\ UNCHANGED << pool, now, ticks, eval >>
       IN  IF withdrawal_supply <= ZERO \/ idle_liquidity <= ZERO THEN nothing
           ELSE
             LET lp_present_value == calculate_lp_present_value(
                                         share_reserves, bond_reserves, share_price,
                                         lp_supply)
             IN  IF lp_present_value = ZERO
                   THEN Fail("lib_distribute", "division by zero", 0, 0, 0)
                 ELSE
                   LET max_withdrawal_shares ==
                           DDiv(DMul(DDiv(idle_liquidity, share_price), withdrawal_supply),
                                lp_present_value)
                       ready_withdrawal_shares == Min(max_withdrawal_shares, withdrawal_supply)
                       new_share_reserves == share_reserves - DDiv(idle_liquidity, share_price)
                       denominator == new_share_reserves + DDiv(idle_liquidity, share_price)
                   IN  IF ready_withdrawal_shares <= ZERO THEN nothing
                       ELSE IF denominator = ZERO
                         THEN Fail("lib_distribute", "division by zero", 0, 0, 0)
                       ELSE
                         LET share_ratio == DDiv(new_share_reserves, denominator)
                         IN  /\ share_reserves' = new_share_reserves
                             /\ zeta_adjustment' = DMul(zeta_adjustment, share_ratio)
                             /\ bond_reserves' = DMul(bond_reserves, share_ratio)
                             /\ ready_withdrawal_vault' =
                                    ready_withdrawal_vault + ready_withdrawal_shares
                             /\ last' = [ Call("lib_distribute", 0, 0, 0)
                                            EXCEPT !.payout = idle_liquidity,
                                                   !.minted = ready_withdrawal_shares ]
                             /\ ops' = ops + 1
                             /\ UNCHANGED << is_initialized, pool_counter, share_price,
                                             config, ledger, yield_source_vault,
                                             governance_vault, active_lp_vault,
                                             supplies, positions, now, ticks, eval >>

\* A redemption that takes the larger of the two amounts.
max_redemption_max(withdrawal_amount, ready_withdrawal_shares_amount) ==
    Max(withdrawal_amount, ready_withdrawal_shares_amount)

\* withdrawal_amount.min(ready_withdrawal_shares_amount)
max_redemption_of(withdrawal_amount, ready_withdrawal_shares_amount) ==
    Min(withdrawal_amount, ready_withdrawal_shares_amount)

\* liquidity.rs redeem_withdrawal_shares, called with a bucket of
\* withdrawal_amount withdrawal shares and the balance of
\* ready_withdrawal_vault as ready_withdrawal_shares_amount.
LibRedeemWithdrawalShares(withdrawal_amount) ==
    /\ CanCallLib
    /\ is_initialized
    /\ withdrawal_amount <= withdrawal_supply
    /\ IF ~(ready_withdrawal_vault > ZERO)
         THEN Fail("lib_redeem", "No withdrawal shares ready for redemption",
                   withdrawal_amount, 0, 0)
       ELSE
         LET max_redemption == max_redemption_of(withdrawal_amount, ready_withdrawal_vault)
             base_tokens_amount == DMul(max_redemption, share_price)
         IN  IF ~CanTake(ready_withdrawal_vault, max_redemption)
               THEN Fail("lib_redeem", "vault", withdrawal_amount, 0, 0)
             ELSE IF ~CanTake(yield_source_vault, base_tokens_amount)
               THEN Fail("lib_redeem", "vault", withdrawal_amount, 0, 0)
             ELSE
               /\ withdrawal_supply' = withdrawal_supply - withdrawal_amount
               /\ ready_withdrawal_vault' = ready_withdrawal_vault - max_redemption
               /\ yield_source_vault' = yield_source_vault - base_tokens_amount
               /\ last' = [ Call("lib_redeem", withdrawal_amount, 0, 0)
                              EXCEPT !.payout = base_tokens_amount ]
               /\ ops' = ops + 1
               /\ UNCHANGED << is_initialized, pool_counter, share_price, config,
                               reserves, ledger, governance_vault, active_lp_vault,
                               lp_supply, positions, now, ticks, eval >>

\* A share price update that accepts any price.
update_share_price_from_yield_source_unchecked(new_share_price) == TRUE

update_share_price_from_yield_source(new_share_price) == new_share_price > ZERO

\* HyperdrivePool::update_share_price
UpdateSharePrice(new_share_price) ==
    /\ CanCall
    /\ IF ~is_initialized
         THEN Fail("update_share_price", "Pool not initialized", new_share_price, 0, 0)
       ELSE IF ~update_share_price_from_yield_source(new_share_price)
         THEN Fail("update_share_price", "Share price must be positive",
                   new_share_price, 0, 0)
       ELSE
         /\ share_price' = new_share_price
         /\ last' = Call("update_share_price", new_share_price, 0, 0)
         /\ ops' = ops + 1
         /\ UNCHANGED << is_initialized, pool_counter, config, reserves, ledger, vaults,
                         supplies, positions, now, ticks, eval >>

\* The read-only methods of the pool.
ViewMethods == { "get_pool_state", "effective_share_reserves", "get_spot_rate" }

\* HyperdrivePool::get_pool_state, effective_share_reserves and get_spot_rate.
\* A read-only method that completes returns a value and commits nothing.
View(method) ==
    /\ CanCall
    /\ IF ~is_initialized
         THEN Fail(method, "Pool not initialized", 0, 0, 0)
       ELSE UNCHANGED vars

\* HyperdrivePool::withdraw_governance_fees, with a proof of the admin badge
\* (auth) or of another resource.
WithdrawGovernanceFees(auth) ==
    /\ CanCall
    /\ IF ~is_initialized
         THEN Fail("withdraw_governance_fees", "Pool not initialized", 0, 0, 0)
       ELSE IF ~auth
         THEN Fail("withdraw_governance_fees", "auth", 0, 0, 0)
       ELSE
         /\ governance_vault' = ZERO
         /\ last' = [ Call("withdraw_governance_fees", 0, 0, 0)
                        EXCEPT !.payout = governance_vault ]
         /\ ops' = ops + 1
         /\ UNCHANGED << is_initialized, pool_counter, share_price, config, reserves,
                         ledger, yield_source_vault, active_lp_vault,
                         ready_withdrawal_vault, supplies, positions, now, ticks, eval >>

Next ==
    \/ Tick
    \/ \E cfg \in PoolConfigs : CreatePool(cfg)
    \/ \E a \in Capitals : OpenLong(a)
    \/ \E id \in IssuedIds : CloseLong(id)
    \/ \E o \in ShortOrders : OpenShort(o.capital, o.face_value)
    \/ \E id \in IssuedIds : CloseShort(id)
    \/ \E a \in Deposits : AddLiquidity(a)
    \/ \E a \in LpAmounts : RemoveLiquidity(a)
    \/ \E p \in SharePrices : UpdateSharePrice(p)
    \/ \E m \in ViewMethods : View(m)
    \/ \E auth \in BOOLEAN : WithdrawGovernanceFees(auth)

Spec == Init /\ [][Next]_vars

\* The pool's operations together with direct calls of the liquidity
\* functions of liquidity.rs.
NextLib ==
    \/ Next
    \/ \E a \in LpAmounts : LibRemoveLiquidity(a)
    \/ LibDistributeExcessIdleLiquidity
    \/ \E a \in RedeemAmounts : LibRedeemWithdrawalShares(a)

SpecLib == Init /\ [][NextLib]_vars

\* ------------------------------------------------------------------------
\* Direct evaluations of the pure functions of helpers.rs and curves.rs
\* ------------------------------------------------------------------------
\* Epochs (u64) the time helper is evaluated at.
EvalTimes == { 0, 1, 2, 3, DEFAULT_CHECKPOINT_DURATION \div 2, DEFAULT_CHECKPOINT_DURATION }

\* Reserves (Decimal) the curve is evaluated at, with empty and negative ones.
EvalReserves == { -ONE, ZERO, 1, 3, ONE - 1, ONE, 250, 95 * ONE, 100 * ONE, 200 * ONE }

\* Face values (Decimal) the curve is evaluated at.
EvalFaceValues == { 1, ONE \div 2, ONE, 10 * ONE, 95 * ONE - 1, 95 * ONE, 200 * ONE }

\* Reserves, face values, time fractions and share prices the position impact
\* is evaluated at.
EvalImpactReserves == { ZERO, 1, 250, 95 * ONE, 100 * ONE }
EvalImpactFaceValues == { 1, ONE, 10 * ONE }
EvalTimeRemaining == { ZERO, 1, ONE \div 2, ONE }
EvalSharePrices == { ZERO, ONE \div 2, ONE, 2 * ONE }

CalculateTimeRemaining(current_time, open_time, maturity_time) ==
    /\ eval = NoEval
    /\ eval' = [ fn |-> "calculate_time_remaining",
                 current_time |-> current_time, open_time |-> open_time,
                 maturity_time |-> maturity_time,
                 result |-> calculate_time_remaining(current_time, open_time, maturity_time) ]
    /\ UNCHANGED << pool, now, last, ops, ticks >>

TradingInvariantDeltaZ(delta_y, z, y) ==
    /\ eval = NoEval
    /\ eval' = [ fn |-> "trading_invariant_delta_z", delta_y |-> delta_y, z |-> z, y |-> y,
                 result |-> trading_invariant_delta_z(delta_y, z, y) ]
    /\ UNCHANGED << pool, now, last, ops, ticks >>

PositionImpactDeltaZ(delta_y, z, y, time_remaining, share_price_) ==
    /\ eval = NoEval
    /\ eval' = [ fn |-> "position_impact_delta_z", delta_y |-> delta_y, z |-> z, y |-> y,
                 time_remaining |-> time_remaining, share_price |-> share_price_,
                 result |-> position_impact_delta_z(delta_y, z, y, time_remaining,
                                                    share_price_) ]
    /\ UNCHANGED << pool, now, last, ops, ticks >>

NextMath ==
    \/ \E current_time, open_time, maturity_time \in EvalTimes :
          CalculateTimeRemaining(current_time, open_time, maturity_time)
    \/ \E delta_y \in EvalFaceValues : \E z, y \in EvalReserves :
          TradingInvariantDeltaZ(delta_y, z, y)
    \/ \E delta_y \in EvalImpactFaceValues : \E z, y \in EvalImpactReserves :
          \E time_remaining \in EvalTimeRemaining : \E share_price_ \in EvalSharePrices :
            PositionImpactDeltaZ(delta_y, z, y, time_remaining, share_price_)

SpecMath == Init /\ [][NextMath]_vars

\* ------------------------------------------------------------------------
\* Properties
\* ------------------------------------------------------------------------
SolvencyRequirement ==
    calculate_solvency_requirement(checkpoints, current_checkpoint,
                                   checkpoint_duration, position_duration)

\* C1: once the pool is created, share_reserves is never below
\* min_share_reserves.
C1_ShareReservesAboveFloor ==
    is_initialized => share_reserves >= min_share_reserves

\* C2: once the pool is created, share_reserves > 0 and bond_reserves >= 0
\* in every state.
C2_ReservesSigns ==
    is_initialized => (share_reserves > ZERO /\ bond_reserves >= ZERO)

\* C3: every position record issued by open_long or open_short has
\* face_value > 0.
C3_FaceValuePositive ==
    /\ \A id \in DOMAIN long_position_nfts : long_position_nfts[id].face_value > ZERO
    /\ \A id \in DOMAIN short_position_nfts : short_position_nfts[id].face_value > ZERO

\* C4: on a pool with positive effective share reserves and positive bond
\* reserves, open_long with capital a immediately followed, at the same
\* time, by close_long of the issued position pays out a minus the fees
\* charged, and exactly a when all fee rates are zero.
C4_OpenCloseLongRoundTrip ==
    [][ ( /\ last.op = "open_long" /\ last.ok
          /\ last.pre.share_reserves - last.pre.zeta_adjustment > ZERO
          /\ last.pre.bond_reserves > ZERO
          /\ last'.op = "close_long" /\ last'.ok
          /\ last'.id = last.id
          /\ last'.time = last.time )
        => /\ last'.time_remaining = ONE
           /\ last'.payout = last.amount - (last.total_fee + last'.total_fee)
           /\ (new_bond_fee = ZERO /\ matured_bond_fee = ZERO /\ governance_fee = ZERO)
                 => last'.payout = last.amount ]_vars

\* C5: a call of the pool's remove_liquidity with 0 < lp_amount <= the LP
\* shares minted and not yet burned does not fail with "Insufficient LP
\* tokens".
C5_HolderCanRemoveLiquidity ==
    ( /\ last.op = "remove_liquidity"
      /\ is_initialized
      /\ ZERO < last.amount
      /\ last.amount <= last.pre.lp_supply )
    => last.err # "Insufficient LP tokens"

\* C6: the pool's add_liquidity adds capital / share_price to share_reserves
\* and mints (share_amount * share_price) / lp_present_value LP shares when
\* LP shares are outstanding, share_amount only when none are.
C6_AddLiquidityMint ==
    (last.op = "add_liquidity" /\ last.ok) =>
        LET share_amount == DDiv(last.amount, last.pre.share_price)
            lp_present_value ==
                calculate_lp_present_value(last.pre.share_reserves, last.pre.bond_reserves,
                                           last.pre.share_price, last.pre.lp_supply)
        IN  /\ share_reserves = last.pre.share_reserves + share_amount
            /\ IF last.pre.lp_supply > ZERO
               THEN lp_present_value # ZERO =>
                        last.minted = DDiv(DMul(share_amount, last.pre.share_price),
                                           lp_present_value)
               ELSE last.minted = share_amount

\* What remove_liquidity owes and what it may pay at once, from the pool as
\* the call found it.
TotalValueOwed ==
    DMul(last.amount,
         calculate_lp_present_value(last.pre.share_reserves, last.pre.bond_reserves,
                                    last.pre.share_price, last.pre.lp_supply))

AvailableShareValue ==
    DMul(Max(last.pre.share_reserves - min_share_reserves
             - DDiv(last.pre.solvency_requirement, last.pre.share_price), ZERO),
         last.pre.share_price)

\* C7: remove_liquidity pays min(total_value_owed, available_share_value) at
\* once and issues withdrawal shares for the remainder, so that payout plus
\* withdrawal shares is total_value_owed.
C7_RemoveLiquiditySplit ==
    (last.op = "lib_remove_liquidity" /\ last.ok) =>
        /\ last.payout = Min(TotalValueOwed, AvailableShareValue)
        /\ last.wshares = TotalValueOwed - last.payout
        /\ last.payout + last.wshares = TotalValueOwed

CheckpointSolvent(z, requirement, c) ==
    z >= min_share_reserves + DDiv(requirement, c)

\* C8: remove_liquidity keeps share_reserves >= min_share_reserves +
\* solvency_requirement / share_price if that held before the call, and
\* leaves share_reserves unchanged if it did not.
C8_RemoveLiquidityKeepsSolvency ==
    (last.op = "lib_remove_liquidity" /\ last.ok) =>
        IF CheckpointSolvent(last.pre.share_reserves, last.pre.solvency_requirement,
                             last.pre.share_price)
        THEN CheckpointSolvent(share_reserves, SolvencyRequirement, share_price)
        ELSE share_reserves = last.pre.share_reserves

\* C8 witness: a removal from a solvent pool with a positive solvency
\* requirement, whose payout the requirement caps: part is paid at once and
\* the rest is issued as withdrawal shares.
C8_Witness ==
    /\ last.op = "lib_remove_liquidity" /\ last.ok
    /\ last.pre.solvency_requirement > ZERO
    /\ CheckpointSolvent(last.pre.share_reserves, last.pre.solvency_requirement,
                         last.pre.share_price)
    /\ last.payout > ZERO
    /\ last.wshares > ZERO
    /\ share_reserves < last.pre.share_reserves

\* The distinct ids of the scan window that the ledger holds.
WindowIds ==
    { id \in DOMAIN checkpoints :
        \E i \in 0 .. ((position_duration \div checkpoint_duration) - 1) :
            id = current_checkpoint - i * checkpoint_duration }

RECURSIVE SumOfRequirements(_)
SumOfRequirements(ids) ==
    IF ids = {} THEN ZERO
    ELSE LET id == CHOOSE x \in ids : TRUE
         IN  Max(checkpoints[id].long_positions - checkpoints[id].short_positions, ZERO)
             + SumOfRequirements(ids \ {id})

\* C9: the solvency requirement is the sum of max(long_positions -
\* short_positions, 0) over the distinct window ids in the ledger, each
\* checkpoint counted once.
C9_SolvencyCountsEachCheckpointOnce ==
    is_initialized => SolvencyRequirement = SumOfRequirements(WindowIds)

\* Amounts by which C10 raises an aggregate.
Raises == { 1, 500 }

RaisedLong(id, d) == [ checkpoints EXCEPT ![id].long_positions = @ + d ]

RaisedShort(id, d) == [ checkpoints EXCEPT ![id].short_positions = @ + d ]

\* C10: for a fixed scan window the solvency requirement does not decrease
\* when a checkpoint's long_positions grows and does not increase when a
\* checkpoint's short_positions grows.
C10_SolvencyMonotone ==
    is_initialized =>
        \A id \in DOMAIN checkpoints, d \in Raises :
            /\ calculate_solvency_requirement(RaisedLong(id, d), current_checkpoint,
                                              checkpoint_duration, position_duration)
                   >= SolvencyRequirement
            /\ calculate_solvency_requirement(RaisedShort(id, d), current_checkpoint,
                                              checkpoint_duration, position_duration)
                   <= SolvencyRequirement

\* C10 witness: a checkpoint of the window holds both longs and shorts, and
\* raising its longs raises the requirement while raising its shorts
\* lowers it.
C10_Witness ==
    /\ is_initialized
    /\ \E id \in WindowIds, d \in Raises :
           /\ checkpoints[id].short_positions > ZERO
           /\ checkpoints[id].long_positions > checkpoints[id].short_positions
           /\ calculate_solvency_requirement(RaisedLong(id, d), current_checkpoint,
                                             checkpoint_duration, position_duration)
                  > SolvencyRequirement
           /\ calculate_solvency_requirement(RaisedShort(id, d), current_checkpoint,
                                             checkpoint_duration, position_duration)
                  < SolvencyRequirement

\* calculate_idle_liquidity on the pool as it is.
IdleLiquidity ==
    calculate_idle_liquidity(share_reserves, share_price, min_share_reserves,
                             checkpoints, current_checkpoint, checkpoint_duration,
                             position_duration)

\* C11: the value calculate_idle_liquidity returns never exceeds
\* share_reserves - min_share_reserves.
C11_IdleLiquidityBelowShareExcess ==
    (is_initialized /\ share_price > ZERO) =>
        IdleLiquidity <= share_reserves - min_share_reserves

\* C11, amended: calculate_idle_liquidity returns base tokens, and its value
\* never exceeds (share_reserves - min_share_reserves) * share_price.
C11_IdleLiquidityBelowShareExcessValue ==
    (is_initialized /\ share_price > ZERO) =>
        IdleLiquidity <= DMul(share_reserves - min_share_reserves, share_price)

\* C11 witness: a pool with open longs and a share price other than 1 whose
\* idle liquidity is positive and capped by the floor of the share reserves.
C11_Witness ==
    /\ is_initialized
    /\ share_price # ONE
    /\ SolvencyRequirement > ZERO
    /\ IdleLiquidity > ZERO
    /\ share_reserves - min_share_reserves
           < share_reserves - DDiv(SolvencyRequirement, share_price)

\* C12: an open or close whose curve-priced bond amount face_value *
\* time_remaining is at least the bond reserves of a pool with positive
\* reserves fails and commits nothing; it is never carried out as a trade.
C12_DrainingQuoteFails ==
    ( /\ last.op \in { "close_long", "open_short", "close_short" }
      /\ last.face_value > ZERO
      /\ last.pre.share_reserves - last.pre.zeta_adjustment > ZERO
      /\ last.pre.bond_reserves > ZERO
      /\ DMul(last.face_value, last.time_remaining) >= last.pre.bond_reserves )
    => ~last.ok

\* The total deposit open_short requires for the face value of the last
\* call, from the pool as the call found it.
ShortTotalDeposit ==
    LET effective_shares == calculate_effective_share_reserves(
                                last.pre.share_reserves, last.pre.zeta_adjustment)
        deposit_required == calculate_short_deposit(last.face_value, effective_shares,
                                                    last.pre.bond_reserves,
                                                    last.pre.share_price, ONE)
        spot_rate == calculate_spot_rate(effective_shares, last.pre.bond_reserves,
                                         last.pre.share_price)
        total_fee == calculate_position_fees(last.face_value, ONE, spot_rate,
                                             new_bond_fee, ZERO)[1]
        lp_fee == total_fee - DMul(total_fee, governance_fee)
    IN  deposit_required + lp_fee

\* C13: open_short with face_value > 0 succeeds exactly when the capital
\* supplied is at least the total required deposit; on success the pool
\* keeps the total required deposit and returns change = capital - total
\* required deposit with 0 <= change <= capital; otherwise it fails for
\* insufficient deposit.
C13_OpenShortDeposit ==
    (last.op = "open_short" /\ is_initialized /\ last.face_value > ZERO) =>
        /\ last.ok <=> last.amount >= ShortTotalDeposit
        /\ last.ok =>
              /\ last.payout = ShortTotalDeposit
              /\ last.change = last.amount - ShortTotalDeposit
              /\ ZERO <= last.change /\ last.change <= last.amount
        /\ ~last.ok => last.err = "Insufficient deposit for short position"

\* The reasons for which open_short rejects its arguments.
OpenShortRejections ==
    { "Face value must be positive", "Insufficient deposit for short position" }

\* C14: an open_short that fails because face_value <= 0 or because the
\* deposit is insufficient leaves share_reserves, bond_reserves,
\* zeta_adjustment, the checkpoint ledger and current_checkpoint as they
\* were, also when it is the first call in a new time bucket.
C14_FailedOpenShortCommitsNothing ==
    [][ ( /\ ops' = ops + 1
          /\ last'.op = "open_short"
          /\ ~last'.ok
          /\ last'.err \in OpenShortRejections )
        => UNCHANGED << share_reserves, bond_reserves, zeta_adjustment,
                        checkpoints, current_checkpoint >> ]_vars

\* C14 witness: an open_short has failed for insufficient deposit as the
\* first call in a time bucket the ledger has not yet reached.
C14_Witness ==
    /\ is_initialized
    /\ last.op = "open_short"
    /\ ~last.ok
    /\ last.err = "Insufficient deposit for short position"
    /\ last.time = now
    /\ calculate_current_checkpoint(now, checkpoint_duration) # current_checkpoint

\* The methods of the pool other than create_pool.
PoolMethods ==
    { "open_long", "close_long", "open_short", "close_short", "add_liquidity",
      "remove_liquidity", "update_share_price", "withdraw_governance_fees" }
        \cup ViewMethods

\* C15: before create_pool has succeeded every other method fails and
\* changes no state; once create_pool has succeeded every further
\* create_pool fails and changes no state.
C15_InitializedGate ==
    [][ /\ ( ops' = ops + 1 /\ ~is_initialized /\ last'.op \in PoolMethods )
            => ( ~last'.ok /\ last'.err = "Pool not initialized" /\ UNCHANGED pool )
        /\ ( ops' = ops + 1 /\ is_initialized /\ last'.op = "create_pool" )
            => ( ~last'.ok /\ last'.err = "Pool already initialized" /\ UNCHANGED pool )
      ]_vars

\* C15 witness: create_pool has been called on a pool that create_pool had
\* already initialized, and has failed.
C15_Witness ==
    /\ last.op = "create_pool"
    /\ last.pre.is_initialized
    /\ ~last.ok
    /\ pool_counter = 1

\* The create_pool arguments of the last call are ones the rules of the
\* specification reject: a fee outside [0,1], a non-positive duration, a
\* position duration that is not a multiple of the checkpoint duration, or
\* a position duration outside [checkpoint_duration, 10*365 days].
SpecRejectsConfig ==
    LET cfg == last.cfg
        fee_ok(fee) == fee >= ZERO /\ fee <= ONE
    IN  \/ ~fee_ok(cfg.new_bond_fee)
        \/ ~fee_ok(cfg.matured_bond_fee)
        \/ ~fee_ok(cfg.governance_fee)
        \/ ~fee_ok(cfg.zombie_governance_fee)
        \/ cfg.checkpoint_duration <= 0
        \/ cfg.position_duration <= 0
        \/ ( cfg.checkpoint_duration > 0
             /\ cfg.position_duration % cfg.checkpoint_duration # 0 )
        \/ cfg.position_duration < cfg.checkpoint_duration
        \/ cfg.position_duration > 315360000

\* C16: create_pool rejects its parameters exactly when a fee is outside
\* [0,1], a duration is non-positive, position_duration is not a multiple of
\* checkpoint_duration, or position_duration is outside
\* [checkpoint_duration, 10*365 days].
C16_CreatePoolRejection ==
    (last.op = "create_pool" /\ ~last.pre.is_initialized) =>
        ( last.err \in { "duration", "fee" } <=> SpecRejectsConfig )

C18_RedeemPaysCappedAmount ==
    (last.op = "lib_redeem" /\ last.ok) =>
        LET redeemed == Min(last.amount, last.pre.ready_withdrawal_vault)
        IN  /\ last.payout = DMul(redeemed, last.pre.share_price)
            /\ ready_withdrawal_vault = last.pre.ready_withdrawal_vault - redeemed

\* C18 witness: at a share price other than 1, a redemption of more
\* withdrawal shares than were ready has paid out the value of the ready
\* shares.
C18_Witness ==
    /\ last.op = "lib_redeem"
    /\ last.ok
    /\ last.pre.share_price # ONE
    /\ last.pre.ready_withdrawal_vault > ZERO
    /\ last.amount > last.pre.ready_withdrawal_vault
    /\ last.payout > ZERO
    /\ ready_withdrawal_vault = ZERO

\* C19: redeem_withdrawal_shares with a requested amount greater than the
\* ready supply fails and commits nothing: no shares burned, no payout.
C19_RedeemBeyondReadyFails ==
    (last.op = "lib_redeem" /\ last.amount > last.pre.ready_withdrawal_vault) =>
        /\ ~last.ok
        /\ withdrawal_supply = last.pre.withdrawal_supply
        /\ last.payout = ZERO

\* What a step may do to share_price: it stays positive; only a create_pool
\* that succeeds, which sets it to 1, and an update_share_price with a
\* positive value, which replaces it, change it; an update_share_price with
\* a value <= 0 fails and leaves it as it was.
SharePriceStep ==
    /\ share_price' > ZERO
    /\ share_price' # share_price =>
          /\ ops' = ops + 1
          /\ last'.ok
          /\ last'.op \in { "create_pool", "update_share_price" }
    /\ ( ops' = ops + 1 /\ last'.op = "create_pool" /\ last'.ok )
          => share_price' = ONE
    /\ ( ops' = ops + 1 /\ last'.op = "update_share_price" /\ is_initialized )
          => IF last'.amount > ZERO
               THEN last'.ok /\ share_price' = last'.amount
               ELSE ~last'.ok /\ share_price' = share_price

\* C20: share_price is strictly positive in every reachable state:
\* update_share_price with a value <= 0 fails and leaves share_price
\* unchanged, a value > 0 replaces it, and no operation other than
\* create_pool, which sets it to 1, and update_share_price changes it.
C20_SharePricePositive ==
    share_price > ZERO /\ [][SharePriceStep]_vars

\* C20 witness: after an update_share_price that replaced the price of 1,
\* an update_share_price with a value <= 0 has failed.
C20_Witness ==
    /\ last.op = "update_share_price"
    /\ last.pre.is_initialized
    /\ last.amount <= ZERO
    /\ ~last.ok
    /\ share_price # ONE
    /\ share_price = last.pre.share_price

\* C21: for every live long or short position, the checkpoint id stored in
\* its record is a key of the checkpoint ledger.
C21_PositionCheckpointInLedger ==
    /\ \A id \in DOMAIN long_position_nfts :
          long_position_nfts[id].checkpoint \in DOMAIN checkpoints
    /\ \A id \in DOMAIN short_position_nfts :
          short_position_nfts[id].checkpoint \in DOMAIN checkpoints

\* C21 witness: a long position and a short position are live, one of them
\* opened in a bucket the ledger has since left.
C21_Witness ==
    /\ \E id \in DOMAIN long_position_nfts : \E sid \in DOMAIN short_position_nfts :
          /\ long_position_nfts[id].checkpoint # short_position_nfts[sid].checkpoint
          /\ long_position_nfts[id].checkpoint \in DOMAIN checkpoints
          /\ short_position_nfts[sid].checkpoint \in DOMAIN checkpoints
    /\ Cardinality(DOMAIN checkpoints) >= 2

\* A close of the live long position id that succeeds consumes its whole
\* face value and destroys its record.
LongClosedWhole(id) ==
    /\ id \in DOMAIN long_position_nfts
    /\ id \notin DOMAIN long_position_nfts'
    /\ << "long", id >> \in burned_position_nfts'
    /\ last'.face_value = long_position_nfts[id].face_value
    /\ LET checkpoint_id == long_position_nfts[id].checkpoint
       IN  checkpoints'[checkpoint_id].long_positions
               = checkpoints[checkpoint_id].long_positions
                 - long_position_nfts[id].face_value

\* A close of the live short position id that succeeds consumes its whole
\* face value and destroys its record.
ShortClosedWhole(id) ==
    /\ id \in DOMAIN short_position_nfts
    /\ id \notin DOMAIN short_position_nfts'
    /\ << "short", id >> \in burned_position_nfts'
    /\ last'.face_value = short_position_nfts[id].face_value
    /\ LET checkpoint_id == short_position_nfts[id].checkpoint
       IN  checkpoints'[checkpoint_id].short_positions
               = checkpoints[checkpoint_id].short_positions
                 - short_position_nfts[id].face_value

\* C22: a position goes open -> closed exactly once: close_long and
\* close_short consume the entire face value of the position, subtracting
\* it from its checkpoint aggregate, and destroy the record; a closed
\* position never becomes live again, and any later close of it fails
\* without changing pool state.
C22_PositionClosedOnce ==
    [][ /\ ( ops' = ops + 1 /\ last'.op = "close_long" /\ last'.ok )
            => LongClosedWhole(last'.id)
        /\ ( ops' = ops + 1 /\ last'.op = "close_short" /\ last'.ok )
            => ShortClosedWhole(last'.id)
        /\ ( /\ ops' = ops + 1
             /\ \/ ( last'.op = "close_long"
                     /\ << "long", last'.id >> \in burned_position_nfts )
                \/ ( last'.op = "close_short"
                     /\ << "short", last'.id >> \in burned_position_nfts ) )
            => ( ~last'.ok /\ UNCHANGED pool )
        /\ \A b \in burned_position_nfts :
              /\ b \in burned_position_nfts'
              /\ b[1] = "long" => b[2] \notin DOMAIN long_position_nfts'
              /\ b[1] = "short" => b[2] \notin DOMAIN short_position_nfts'
      ]_vars

\* C22 witness: a long position that had been closed has been presented to
\* close_long again, and the call has failed.
C22_Witness ==
    /\ last.op = "close_long"
    /\ ~last.ok
    /\ << "long", last.id >> \in burned_position_nfts

\* The ledger holds exactly one checkpoint, under id, with the genesis share
\* price and zero aggregates, and it is the current checkpoint.
LedgerSeededAt(id) ==
    /\ DOMAIN checkpoints = { id }
    /\ current_checkpoint = id
    /\ checkpoints[id].start_time = id
    /\ checkpoints[id].share_price = ONE
    /\ checkpoints[id].long_positions = ZERO
    /\ checkpoints[id].short_positions = ZERO
    /\ checkpoints[id].is_minted

\* C23: immediately after create_pool the ledger contains exactly one
\* checkpoint, it has id 0, its recorded share price is the genesis share
\* price, its aggregates are zero and current_checkpoint = 0, whatever the
\* clock reads at creation.
C23_FirstCheckpointIsZero ==
    (last.op = "create_pool" /\ last.ok) => LedgerSeededAt(0)

\* C23, amended: immediately after create_pool the ledger contains exactly
\* one checkpoint, whose id is the start of the bucket of the creation time,
\* now - (now mod checkpoint_duration); its recorded share price is the
\* genesis share price, its aggregates are zero and current_checkpoint is
\* that id.
C23_FirstCheckpointIsCreationBucket ==
    (last.op = "create_pool" /\ last.ok) =>
        LedgerSeededAt(last.time - (last.time % checkpoint_duration))

\* C23 witness: a pool has been created at a time past its first bucket.
C23_Witness ==
    /\ last.op = "create_pool"
    /\ last.ok
    /\ last.time >= checkpoint_duration
    /\ current_checkpoint > 0

\* The spot rate of the pool as the last call found it.
SpotRateBefore ==
    calculate_spot_rate(
        calculate_effective_share_reserves(last.pre.share_reserves,
                                           last.pre.zeta_adjustment),
        last.pre.bond_reserves, last.pre.share_price)

\* The spot rate of the pool.
SpotRateNow ==
    calculate_spot_rate(
        calculate_effective_share_reserves(share_reserves, zeta_adjustment),
        bond_reserves, share_price)

\* The difference that the truncation of the fixed-point products and
\* quotients of a sweep can make to a spot rate.
SpotRateRounding == ONE \div 20

\* C24: whenever distribute_excess_idle_liquidity distributes, the spot rate
\* computed from (share_reserves - zeta_adjustment, bond_reserves,
\* share_price) is the same after the sweep as before it, up to the
\* truncation of the arithmetic, for every pool configuration including
\* min_share_reserves = 0.
C24_SweepHoldsSpotRate ==
    (last.op = "lib_distribute" /\ last.ok /\ last.minted > ZERO) =>
        Abs(SpotRateNow - SpotRateBefore) <= SpotRateRounding

\* The open and close paths.
Trades == { "open_long", "close_long", "open_short", "close_short" }

\* What the yield source vault receives from the caller of the trade of
\* this step, or pays to them when negative.
CustodyFlow ==
    CASE last'.op = "open_long" -> last'.amount
      [] last'.op = "open_short" -> last'.amount - last'.change
      [] OTHER -> ZERO - last'.payout

\* C25: in every open and close path governance_fee_amount = total_fee *
\* governance_fee and lp_fee = total_fee - governance_fee_amount, so the two
\* add up to total_fee and 0 <= governance_fee_amount <= total_fee; the
\* governance sink grows by governance_fee_amount / share_price and custody
\* shrinks by the same amount; a total fee of 50 with governance_fee 0.1
\* gives governance 5 and LP fee 45.
C25_FeeRouting ==
    [][ ( ops' = ops + 1 /\ last'.op \in Trades /\ last'.ok ) =>
          /\ last'.governance_fee_amount = DMul(last'.total_fee, governance_fee)
          /\ last'.lp_fee = last'.total_fee - last'.governance_fee_amount
          /\ last'.governance_fee_amount + last'.lp_fee = last'.total_fee
          /\ ZERO <= last'.governance_fee_amount
          /\ last'.governance_fee_amount <= last'.total_fee
          /\ governance_vault' - governance_vault
                 = DDiv(last'.governance_fee_amount, share_price)
          /\ yield_source_vault' - yield_source_vault
                 = CustodyFlow - DDiv(last'.governance_fee_amount, share_price)
          /\ DMul(50 * ONE, ONE \div 10) = 5 * ONE
          /\ 50 * ONE - DMul(50 * ONE, ONE \div 10) = 45 * ONE
      ]_vars

\* The start of the time bucket of the clock.
CurrentBucket == now - (now % checkpoint_duration)

\* C26: after every successful open_long, close_long, open_short or
\* close_short at time now, current_checkpoint = now - (now mod
\* checkpoint_duration); with the clock never going back, current_checkpoint
\* never decreases, and a position opened at time now is registered under
\* that bucket, never under a stale earlier one.
C26_CheckpointFollowsClock ==
    [][ /\ now' >= now
        /\ current_checkpoint' >= current_checkpoint
        /\ ( ops' = ops + 1 /\ last'.op \in Trades /\ last'.ok )
              => ( last'.time = now /\ current_checkpoint' = CurrentBucket )
        /\ ( ops' = ops + 1 /\ last'.op = "open_long" /\ last'.ok )
              => /\ last'.id \in DOMAIN long_position_nfts'
                 /\ long_position_nfts'[last'.id].checkpoint = CurrentBucket
        /\ ( ops' = ops + 1 /\ last'.op = "open_short" /\ last'.ok )
              => /\ last'.id \in DOMAIN short_position_nfts'
                 /\ short_position_nfts'[last'.id].checkpoint = CurrentBucket
      ]_vars

\* C26 witness: a position has been opened in a bucket later than the one
\* the pool was created in, and is registered under the later bucket.
C26_Witness ==
    /\ last.op = "open_long"
    /\ last.ok
    /\ last.time = now
    /\ Cardinality(DOMAIN checkpoints) >= 2
    /\ long_position_nfts[last.id].checkpoint = current_checkpoint
    /\ current_checkpoint = CurrentBucket

\* What the trade of this step adds to the long aggregate of checkpoint id.
LongAggregateChange(id) ==
    IF ~(ops' = ops + 1 /\ last'.ok) THEN ZERO
    ELSE IF last'.op = "open_long" /\ long_position_nfts'[last'.id].checkpoint = id
      THEN last'.face_value
    ELSE IF last'.op = "close_long" /\ long_position_nfts[last'.id].checkpoint = id
      THEN ZERO - last'.face_value
    ELSE ZERO

\* What the trade of this step adds to the short aggregate of checkpoint id.
ShortAggregateChange(id) ==
    IF ~(ops' = ops + 1 /\ last'.ok) THEN ZERO
    ELSE IF last'.op = "open_short" /\ short_position_nfts'[last'.id].checkpoint = id
      THEN last'.face_value
    ELSE IF last'.op = "close_short" /\ short_position_nfts[last'.id].checkpoint = id
      THEN ZERO - last'.face_value
    ELSE ZERO

\* A checkpoint of the ledger is well formed.
MintedCheckpoint(id) ==
    /\ checkpoints[id].start_time = id
    /\ checkpoints[id].is_minted
    /\ id % checkpoint_duration = 0

\* C27: a checkpoint moves only absent -> minted: once an id is in the
\* ledger it is never removed and never minted again, so that its
\* aggregates change only by the face value of a position opened or closed
\* under it; its start_time equals its id, and its start_time, recorded
\* share price and is_minted = true never change; every ledger id is a
\* multiple of checkpoint_duration.
C27_CheckpointOnlyAccumulates ==
    (\A id \in DOMAIN checkpoints : MintedCheckpoint(id))
    /\ [][ \A id \in DOMAIN checkpoints :
              /\ id \in DOMAIN checkpoints'
              /\ checkpoints'[id].start_time = id
              /\ checkpoints'[id].is_minted
              /\ checkpoints'[id].share_price = checkpoints[id].share_price
              /\ checkpoints'[id].long_positions
                     = checkpoints[id].long_positions + LongAggregateChange(id)
              /\ checkpoints'[id].short_positions
                     = checkpoints[id].short_positions + ShortAggregateChange(id)
         ]_vars
    /\ [][ \A id \in DOMAIN checkpoints' :
              /\ checkpoints'[id].start_time = id
              /\ checkpoints'[id].is_minted
              /\ id % checkpoint_duration' = 0 ]_vars

\* C27 witness: a checkpoint that holds positions has been left behind by
\* the pointer, and the checkpoint minted after it recorded another share
\* price.
C27_Witness ==
    \E id \in DOMAIN checkpoints :
        /\ id < current_checkpoint
        /\ checkpoints[id].long_positions + checkpoints[id].short_positions > ZERO
        /\ current_checkpoint \in DOMAIN checkpoints
        /\ checkpoints[current_checkpoint].share_price # checkpoints[id].share_price

\* The sum of face_value over the records of nfts whose id is in ids.
RECURSIVE SumOfFaceValues(_, _)
SumOfFaceValues(nfts, ids) ==
    IF ids = {} THEN ZERO
    ELSE LET id == CHOOSE i \in ids : TRUE
         IN  nfts[id].face_value + SumOfFaceValues(nfts, ids \ { id })

\* The live positions of nfts registered under checkpoint_id.
PositionsOf(nfts, checkpoint_id) ==
    { id \in DOMAIN nfts : nfts[id].checkpoint = checkpoint_id }

\* Each aggregate is the sum of the face values of the live positions
\* registered under its checkpoint.
AggregatesMatchPositions ==
    \A checkpoint_id \in DOMAIN checkpoints :
        /\ checkpoints[checkpoint_id].long_positions
               = SumOfFaceValues(long_position_nfts,
                                 PositionsOf(long_position_nfts, checkpoint_id))
        /\ checkpoints[checkpoint_id].short_positions
               = SumOfFaceValues(short_position_nfts,
                                 PositionsOf(short_position_nfts, checkpoint_id))

\* C28: after any sequence of opens and closes, each checkpoint's
\* long_positions equals the sum of face_value over the live long positions
\* whose record names that checkpoint, and its short_positions equals the
\* same sum over live short positions; both aggregates are never negative.
C28_AggregatesAreSums ==
    /\ AggregatesMatchPositions
    /\ \A checkpoint_id \in DOMAIN checkpoints :
          /\ checkpoints[checkpoint_id].long_positions >= ZERO
          /\ checkpoints[checkpoint_id].short_positions >= ZERO

\* The face value the curve quotes for the capital of the open_long of this
\* step.
QuotedLongFaceValue ==
    calculate_long_face_value(
        DDiv(last'.amount, share_price),
        calculate_effective_share_reserves(share_reserves, zeta_adjustment),
        bond_reserves)

\* The LP fee of the open_long of this step.
QuotedLongLpFee ==
    LET spot_rate == calculate_spot_rate(
                         calculate_effective_share_reserves(share_reserves,
                                                            zeta_adjustment),
                         bond_reserves, share_price)
        total_fee == calculate_position_fees(QuotedLongFaceValue, ONE, spot_rate,
                                             new_bond_fee, ZERO)[1]
    IN  total_fee - DMul(total_fee, governance_fee)

\* The long aggregate of checkpoint id before this step, zero if the step
\* mints the checkpoint.
LongAggregateBefore(id) ==
    IF id \in DOMAIN checkpoints THEN checkpoints[id].long_positions ELSE ZERO

\* C29: open_long increases share_reserves by capital / share_price,
\* decreases bond_reserves by adjusted_face_value = quoted face value - LP
\* fee, leaves zeta_adjustment unchanged, adds exactly adjusted_face_value
\* to the current checkpoint's long aggregate, and issues a record with
\* face_value = adjusted_face_value, checkpoint = current_checkpoint,
\* open_time = now and maturity_time = current_checkpoint +
\* position_duration.
C29_OpenLongEffect ==
    [][ ( ops' = ops + 1 /\ last'.op = "open_long" /\ last'.ok ) =>
          LET adjusted_face_value == QuotedLongFaceValue - QuotedLongLpFee
              record == long_position_nfts'[last'.id]
          IN  /\ share_reserves' = share_reserves + DDiv(last'.amount, share_price)
              /\ bond_reserves' = bond_reserves - adjusted_face_value
              /\ zeta_adjustment' = zeta_adjustment
              /\ checkpoints'[current_checkpoint'].long_positions
                     = LongAggregateBefore(current_checkpoint') + adjusted_face_value
              /\ last'.id \notin DOMAIN long_position_nfts
              /\ record.face_value = adjusted_face_value
              /\ record.checkpoint = current_checkpoint'
              /\ record.open_time = now
              /\ record.maturity_time = current_checkpoint' + position_duration
      ]_vars

\* C29 witness: at a share price other than 1 and in a bucket that already
\* held a long, open_long has issued a position of positive face value net
\* of a positive LP fee.
C29_Witness ==
    /\ last.op = "open_long"
    /\ last.ok
    /\ last.pre.share_price # ONE
    /\ last.lp_fee > ZERO
    /\ last.face_value > ZERO
    /\ checkpoints[current_checkpoint].long_positions > last.face_value

\* The LP fee of the close_long of this step, for time_remaining tr.
ClosedLongLpFee(face_value, tr) ==
    LET spot_rate == calculate_spot_rate(
                         calculate_effective_share_reserves(share_reserves,
                                                            zeta_adjustment),
                         bond_reserves, share_price)
        fees == calculate_position_fees(face_value, tr, spot_rate,
                                        new_bond_fee, matured_bond_fee)
        total_fee == fees[1] + fees[2]
    IN  total_fee - DMul(total_fee, governance_fee)

\* What truncating face_value / share_price and multiplying the quotient by
\* share_price can lose.
PayoutRounding == (share_price \div ONE) + 1

\* C30: close_long with time_remaining tr decreases share_reserves by the
\* blended impact dz = position_impact_delta_z(face_value, z_eff, y, tr, c),
\* increases bond_reserves by exactly face_value * tr and pays dz * c -
\* lp_fee; closing a fully matured long (tr = 0) leaves bond_reserves
\* unchanged, decreases share_reserves by face_value / share_price and pays
\* face_value - lp_fee, up to the truncation of the quotient.
C30_CloseLongEffect ==
    [][ ( ops' = ops + 1 /\ last'.op = "close_long" /\ last'.ok ) =>
          LET record == long_position_nfts[last'.id]
              face_value == record.face_value
              tr == calculate_time_remaining(now, record.open_time, record.maturity_time)
              dz == position_impact_delta_z(
                        face_value,
                        calculate_effective_share_reserves(share_reserves,
                                                           zeta_adjustment),
                        bond_reserves, tr, share_price)
              lp_fee == ClosedLongLpFee(face_value, tr)
          IN  /\ share_reserves' = share_reserves - dz
              /\ bond_reserves' = bond_reserves + DMul(face_value, tr)
              /\ last'.payout = DMul(dz, share_price) - lp_fee
              /\ yield_source_vault' + governance_vault'
                     = yield_source_vault + governance_vault - last'.payout
              /\ tr = ZERO =>
                    /\ bond_reserves' = bond_reserves
                    /\ share_reserves' = share_reserves - DDiv(face_value, share_price)
                    /\ Abs(last'.payout - (face_value - lp_fee))
                           <= PayoutRounding
      ]_vars

\* C31: calculate_time_remaining returns a value in [0,1] for every
\* (current_time, open_time, maturity_time); it returns 0 whenever
\* current_time >= maturity_time or open_time >= maturity_time, and 1 when
\* current_time = open_time < maturity_time.  close_long and close_short take
\* their time_remaining from this function.
C31_TimeRemainingInUnitInterval ==
    eval.fn = "calculate_time_remaining"
        => /\ ZERO <= eval.result
           /\ eval.result <= ONE
           /\ ( eval.current_time >= eval.maturity_time
                \/ eval.open_time >= eval.maturity_time ) => eval.result = ZERO
           /\ ( eval.current_time = eval.open_time
                /\ eval.open_time < eval.maturity_time ) => eval.result = ONE

\* A position part of the way to its maturity has a fraction of its term left.
C31_Witness ==
    /\ eval.fn = "calculate_time_remaining"
    /\ eval.open_time < eval.current_time
    /\ eval.current_time < eval.maturity_time
    /\ ZERO < eval.result
    /\ eval.result < ONE

\* The step is a call of distribute_excess_idle_liquidity.
IsSweep == ops' = ops + 1 /\ last'.op = "lib_distribute"

\* What the truncations of solvency_requirement / share_price and of
\* share_reserves * share_price can lose of a value in base tokens.
SolvencyRounding == (share_price \div ONE) + 1

\* What a call of distribute_excess_idle_liquidity may do to the pool.
SweepStep ==
    IsSweep =>
        /\ share_reserves >= min_share_reserves
              => share_reserves' >= min_share_reserves
        /\ ( share_reserves >= min_share_reserves
             /\ DMul(share_reserves, share_price) >= SolvencyRequirement )
              => DMul(share_reserves', share_price')
                     >= SolvencyRequirement' - SolvencyRounding
        /\ ( withdrawal_supply <= ZERO \/ IdleLiquidity <= ZERO )
              => /\ last'.payout = ZERO
                 /\ last'.minted = ZERO
                 /\ UNCHANGED pool
        /\ last'.minted <= Max(withdrawal_supply, ZERO)

ProductKept(delta_y, z, y, dz) ==
    LET before == z * y
        after == (z + dz) * (y - delta_y)
    IN  /\ after <= before
        /\ before - after < (y - delta_y) + ONE

\* The guards of trading_invariant_delta_z: with z <= 0 or y <= 0 it returns
\* delta_y, and with positive reserves and y - delta_y <= 0 it returns 0.
CurveGuards(delta_y, z, y, dz) ==
    /\ ( z <= ZERO \/ y <= ZERO ) => dz = delta_y
    /\ ( z > ZERO /\ y > ZERO /\ y - delta_y <= ZERO ) => dz = ZERO

\* The trade is inside the curve: positive reserves and 0 < delta_y < y.
InsideCurve(delta_y, z, y) ==
    z > ZERO /\ y > ZERO /\ ZERO < delta_y /\ delta_y < y

\* C33: for all z > 0, y > 0 and 0 < dy < y, dz = trading_invariant_delta_z(dy,
\* z, y) keeps z * y = (z + dz) * (y - dy) within rounding tolerance and is
\* greater than 0; with z <= 0 or y <= 0 it returns dy, and with y - dy <= 0
\* it returns 0.
C33_CurveKeepsProductAndCharges ==
    eval.fn = "trading_invariant_delta_z"
        => /\ InsideCurve(eval.delta_y, eval.z, eval.y)
                => /\ ProductKept(eval.delta_y, eval.z, eval.y, eval.result)
                   /\ eval.result > ZERO
           /\ CurveGuards(eval.delta_y, eval.z, eval.y, eval.result)

\* C33, amended: for all z > 0, y > 0 and 0 < dy < y, dz keeps z * y =
\* (z + dz) * (y - dy) within rounding tolerance, and dz > 0 whenever
\* z * dy >= ulp * (y - dy + 1), ulp being the smallest positive Decimal; a
\* smaller trade can be priced at dz <= 0 by the truncation of z * y and of
\* the quotient.  With z <= 0 or y <= 0 it returns dy, and with y - dy <= 0
\* it returns 0.
C33_CurveKeepsProduct ==
    eval.fn = "trading_invariant_delta_z"
        => /\ InsideCurve(eval.delta_y, eval.z, eval.y)
                => /\ ProductKept(eval.delta_y, eval.z, eval.y, eval.result)
                   /\ eval.z * eval.delta_y >= (eval.y - eval.delta_y) + ONE
                          => eval.result > ZERO
           /\ CurveGuards(eval.delta_y, eval.z, eval.y, eval.result)

\* C33 witness: the example z = 100000, y = 95000, dy = 1000 with dz ~ 1063.83,
\* at one thousandth of its size (the curve is homogeneous): z = 100, y = 95,
\* dy = 1 gives dz = 1.06.
C33_Witness ==
    /\ eval.fn = "trading_invariant_delta_z"
    /\ eval.z = 100 * ONE
    /\ eval.y = 95 * ONE
    /\ eval.delta_y = ONE
    /\ eval.result = ONE + 6

\* The price of a part of a position: a part without bonds costs nothing.
PriceOfPart(bonds, price) == IF bonds > ZERO THEN price ELSE ZERO

\* C34: for every face value dy > 0, position_impact_delta_z(dy, z, y, 1, c) =
\* trading_invariant_delta_z(dy, z, y) and position_impact_delta_z(dy, z, y, 0,
\* c) = maturity_pricing_delta_z(dy, c); for tr in [0,1] the result is the sum
\* of the curve price of dy * tr and the maturity price of dy * (1 - tr), a
\* part of no bonds being priced at 0.
C34_ImpactBlendsCurveAndMaturity ==
    ( eval.fn = "position_impact_delta_z" /\ eval.delta_y > ZERO )
        => LET new_bonds == DMul(eval.delta_y, eval.time_remaining)
               matured_bonds == DMul(eval.delta_y, ONE - eval.time_remaining)
           IN  /\ eval.time_remaining = ONE
                     => eval.result
                            = trading_invariant_delta_z(eval.delta_y, eval.z, eval.y)
               /\ eval.time_remaining = ZERO
                     => eval.result
                            = maturity_pricing_delta_z(eval.delta_y, eval.share_price)
               /\ ( ZERO <= eval.time_remaining /\ eval.time_remaining <= ONE )
                     => eval.result
                            = PriceOfPart(new_bonds,
                                  trading_invariant_delta_z(new_bonds, eval.z, eval.y))
                              + PriceOfPart(matured_bonds,
                                  maturity_pricing_delta_z(matured_bonds, eval.share_price))

\* C34 witness: a position half way to maturity in a pool with reserves, at a
\* share price other than 1: both parts have a price and the curve part alone
\* is not the result.
C34_Witness ==
    /\ eval.fn = "position_impact_delta_z"
    /\ eval.z > ZERO /\ eval.y > eval.delta_y
    /\ ZERO < eval.time_remaining /\ eval.time_remaining < ONE
    /\ eval.share_price > ZERO /\ eval.share_price # ONE
    /\ trading_invariant_delta_z(DMul(eval.delta_y, eval.time_remaining), eval.z, eval.y)
           > ZERO
    /\ eval.result
           > trading_invariant_delta_z(DMul(eval.delta_y, eval.time_remaining), eval.z, eval.y)

\* The long position id is live and its maturity_time has passed.
MaturedLong(id) ==
    /\ is_initialized
    /\ id \in DOMAIN long_position_nfts
    /\ now >= long_position_nfts[id].maturity_time

\* The short position id is live and its maturity_time has passed.
MaturedShort(id) ==
    /\ is_initialized
    /\ id \in DOMAIN short_position_nfts
    /\ now >= short_position_nfts[id].maturity_time

\* The yield source vault holds more than a matured long of this face value
\* can be paid together with its governance fee: the proceeds are at most
\* the face value and the fee at most face_value / share_price.
CustodyCoversLong(face_value) ==
    yield_source_vault >= Abs(face_value) + DDiv(Abs(face_value), share_price)

\* The same for a matured short, whose proceeds are at most face_value *
\* share_price / initial_share_price.
CustodyCoversShort(face_value, initial_share_price) ==
    yield_source_vault >= DMul(Abs(face_value), DDiv(share_price, initial_share_price))
                          + DDiv(Abs(face_value), share_price)

\* A close of a matured position that custody covers completes and pays
\* non-negative proceeds.
CloseMaturedStep ==
    \A id \in IssuedIds :
        /\ ( /\ ops' = ops + 1 /\ last'.op = "close_long" /\ last'.id = id
             /\ MaturedLong(id)
             /\ CustodyCoversLong(long_position_nfts[id].face_value) )
              => last'.ok /\ last'.payout >= ZERO
        /\ ( /\ ops' = ops + 1 /\ last'.op = "close_short" /\ last'.id = id
             /\ MaturedShort(id)
             /\ CustodyCoversShort(short_position_nfts[id].face_value,
                                   short_position_nfts[id].initial_share_price) )
              => last'.ok /\ last'.payout >= ZERO

\* C35: every position whose maturity_time has passed can be closed: for any
\* fee rates in [0,1] and any share price history, close_long and close_short
\* on a matured position compute non-negative proceeds and complete when
\* custody holds the proceeds, so no open position is stuck forever.
C35_MaturedPositionCloses == [][CloseMaturedStep]_vars

\* The ledger with so many longs added to checkpoint_id that its net
\* requirement is positive.
LedgerWithMoreLongs(checkpoint_id) ==
    LET checkpoint == checkpoints[checkpoint_id]
    IN  [ checkpoints EXCEPT ![checkpoint_id].long_positions =
              @ + Abs(checkpoint.long_positions - checkpoint.short_positions) + ONE ]

\* calculate_solvency_requirement, called with the stored current_checkpoint
\* as remove_liquidity calls it, scans checkpoint_id: the requirement follows
\* the net requirement of that checkpoint.
ScannedBySolvency(checkpoint_id) ==
    /\ checkpoint_id \in DOMAIN checkpoints
    /\ calculate_solvency_requirement(LedgerWithMoreLongs(checkpoint_id),
                                      current_checkpoint, checkpoint_duration,
                                      position_duration)
           > SolvencyRequirement

\* The aggregates of checkpoint_id count the live positions registered under it.
CountedIn(checkpoint_id) ==
    /\ checkpoints[checkpoint_id].long_positions
           = SumOfFaceValues(long_position_nfts,
                             PositionsOf(long_position_nfts, checkpoint_id))
    /\ checkpoints[checkpoint_id].short_positions
           = SumOfFaceValues(short_position_nfts,
                             PositionsOf(short_position_nfts, checkpoint_id))

\* C36: every live position that has not yet matured (now < maturity_time)
\* has its checkpoint inside the window scanned by
\* calculate_solvency_requirement, also when the stored current_checkpoint is
\* stale because only add/remove liquidity calls happened since the last
\* position operation, and the aggregates of that checkpoint count its face
\* value.
C36_UnmaturedPositionInWindow ==
    /\ \A id \in DOMAIN long_position_nfts :
          now < long_position_nfts[id].maturity_time
              => /\ ScannedBySolvency(long_position_nfts[id].checkpoint)
                 /\ CountedIn(long_position_nfts[id].checkpoint)
    /\ \A id \in DOMAIN short_position_nfts :
          now < short_position_nfts[id].maturity_time
              => /\ ScannedBySolvency(short_position_nfts[id].checkpoint)
                 /\ CountedIn(short_position_nfts[id].checkpoint)

\* C36 witness: after an add_liquidity the stored current_checkpoint is behind
\* the clock, and a long that has not matured is registered under a checkpoint
\* older than the bucket the clock is in.
C36_Witness ==
    /\ last.op = "add_liquidity" /\ last.ok
    /\ current_checkpoint < calculate_current_checkpoint(now, checkpoint_duration)
    /\ \E id \in DOMAIN long_position_nfts :
          /\ now < long_position_nfts[id].maturity_time
          /\ long_position_nfts[id].face_value > ZERO
          /\ long_position_nfts[id].checkpoint
                 < calculate_current_checkpoint(now, checkpoint_duration)

\* C37: redeem_withdrawal_shares destroys exactly as many withdrawal shares as
\* it pays out for: the supply of withdrawal shares falls by min(requested,
\* ready), so when the submitted amount exceeds the ready supply the holder's
\* remaining claim survives.
C37_RedeemBurnsWhatItPays ==
    (last.op = "lib_redeem" /\ last.ok) =>
        withdrawal_supply
            = last.pre.withdrawal_supply
              - Min(last.amount, last.pre.ready_withdrawal_vault)

\* The shares remove_liquidity treats as available in the state before the
\* last call: max(share_reserves - min_share_reserves - solvency_requirement /
\* share_price, 0).
FreeSharesBefore ==
    Max(last.pre.share_reserves - min_share_reserves
        - DDiv(last.pre.solvency_requirement, last.pre.share_price), ZERO)

\* C38: the sweep and remove_liquidity agree on what is free: the number of
\* shares distribute_excess_idle_liquidity removes from share_reserves never
\* exceeds max(share_reserves - min_share_reserves - solvency_requirement /
\* share_price, 0), the amount remove_liquidity treats as available in the
\* same state.
C38_SweepTakesOnlyFreeShares ==
    (last.op = "lib_distribute" /\ last.ok) =>
        last.pre.share_reserves - share_reserves <= FreeSharesBefore

====
